---- MODULE Spec2Model ----
(***************************************************************************)
(* Model of the movies edge function of msbapi                             *)
(* (packages/edge-functions/supabase/functions/movies/index.ts) together   *)
(* with the two tables it writes (docs/database).                          *)
(*                                                                         *)
(* Strings the code parses with regular expressions are sequences of       *)
(* one-character strings (titles, content); URLs and tag ids are the       *)
(* sequence of their "/"-separated segments.  A character outside ASCII   *)
(* is the one-element string that names its code point ("U+2605").         *)
(***************************************************************************)
EXTENDS Integers, Sequences, FiniteSets, TLC

(***************************************************************************)
(* Null values.  JS null/undefined and SQL NULL are one value per type.    *)
(***************************************************************************)
NULL == "null"
NoInt == 0 - 1
NoStr == <<"undefined">>

Min(S) == CHOOSE x \in S : \A y \in S : x <= y

(***************************************************************************)
(* Character classes and string helpers of the JS runtime.                 *)
(***************************************************************************)
Digits == {"0", "1", "2", "3", "4", "5", "6", "7", "8", "9"}
Whitespace == {" "}

DigitValue(c) ==
    CASE c = "0" -> 0 [] c = "1" -> 1 [] c = "2" -> 2 [] c = "3" -> 3
      [] c = "4" -> 4 [] c = "5" -> 5 [] c = "6" -> 6 [] c = "7" -> 7
      [] c = "8" -> 8 [] c = "9" -> 9

\* parseInt / parseFloat of a run of decimal digits
RECURSIVE ParseInt(_)
ParseInt(s) ==
    IF s = <<>> THEN 0
    ELSE 10 * ParseInt(SubSeq(s, 1, Len(s) - 1)) + DigitValue(s[Len(s)])

\* String.prototype.trim
RECURSIVE Trim(_)
Trim(s) ==
    IF s = <<>> THEN s
    ELSE IF Head(s) \in Whitespace THEN Trim(Tail(s))
    ELSE IF s[Len(s)] \in Whitespace THEN Trim(SubSeq(s, 1, Len(s) - 1))
    ELSE s

\* JS truthiness of a string value (undefined and "" are falsy)
Truthy(s) == s # NoStr /\ s # <<>>

\* position after the whitespace run that starts at i   (regex \s*)
RECURSIVE SkipWs(_, _)
SkipWs(s, i) ==
    IF i <= Len(s) /\ s[i] \in Whitespace THEN SkipWs(s, i + 1) ELSE i

\* four digits at positions i..i+3   (regex \d{4})
FourDigitsAt(s, i) ==
    /\ i >= 1
    /\ i + 3 <= Len(s)
    /\ \A k \in i..(i + 3) : s[k] \in Digits

(***************************************************************************)
(* Source Extractor: extractMovieData and the three platform parsers.      *)
(* A feed item is [id, title, trakt_id, content, link, guid, pubDate];     *)
(* a draft (movieData) is [title, year, rating, source, sourceUrl,         *)
(* watchedAt, externalIds].  director and review are never read by the     *)
(* resolver or the queries modelled here and are left out of the draft.    *)
(***************************************************************************)
LetterboxdMarker == "letterboxd.com"
TraktMarker == "trakt.tv"
TraktMovieTag == "tag:trakt.tv,2005:Movie"
DigitSegments == {"550", "603"}
\* The rating pattern of extractLetterboxdData is written in the source as
\* the three characters U+00E2, U+02DC, U+2026 (the UTF-8 bytes of U+2605
\* BLACK STAR read as windows-1252) followed by "+": it matches U+00E2,
\* U+02DC and then one or more U+2026.  Each name below is one character.
ACircumflex == "U+00E2"
SmallTilde == "U+02DC"
Ellipsis == "U+2026"
BlackStar == "U+2605"

\* link.includes(marker), on the segments of the link
Includes(link, marker) == \E k \in 1..Len(link) : link[k] = marker

\* id.match(/tag:trakt\.tv,\d+:Movie\/(\d+)\//)
TraktIdFromTag(id) ==
    LET ks == {k \in 1..Len(id) : /\ id[k] = TraktMovieTag
                                  /\ k + 2 <= Len(id)
                                  /\ id[k + 1] \in DigitSegments}
    IN  IF ks = {} THEN NULL ELSE id[Min(ks) + 1]

\* link.match(/letterboxd\.com\/[^\/]+\/film\/([^\/]+)/)
LetterboxdIdFromLink(link) ==
    LET ks == {k \in 1..Len(link) : /\ link[k] = LetterboxdMarker
                                    /\ k + 3 <= Len(link)
                                    /\ link[k + 1] # ""
                                    /\ link[k + 2] = "film"
                                    /\ link[k + 3] # ""}
    IN  IF ks = {} THEN NULL ELSE link[Min(ks) + 3]

\* link.match(/trakt\.tv\/movies\/([^\/]+)/)
TraktIdFromLink(link) ==
    LET ks == {k \in 1..Len(link) : /\ link[k] = TraktMarker
                                    /\ k + 2 <= Len(link)
                                    /\ link[k + 1] = "movies"
                                    /\ link[k + 2] # ""}
    IN  IF ks = {} THEN NULL ELSE link[Min(ks) + 2]

\* the title pattern with a greedy first group, /^(.+),\s*(\d{4})/: the
\* split is on the last comma followed by four digits
LetterboxdTitle_Greedy(title) ==
    LET is == {i \in 1..Len(title) :
                  /\ i + 1 <= Len(title)
                  /\ title[i + 1] = ","
                  /\ FourDigitsAt(title, SkipWs(title, i + 2))}
    IN  IF is = {} THEN [title |-> title, year |-> NoInt]
        ELSE LET i == CHOOSE x \in is : \A y \in is : y <= x
                 y == SkipWs(title, i + 2)
             IN  [title |-> Trim(SubSeq(title, 1, i)),
                  year |-> ParseInt(SubSeq(title, y, y + 3))]

\* title.match(/^(.+?),\s*(\d{4})/): [title, year], or the whole title
LetterboxdTitle(title) ==
    LET is == {i \in 1..Len(title) :
                  /\ i + 1 <= Len(title)
                  /\ title[i + 1] = ","
                  /\ FourDigitsAt(title, SkipWs(title, i + 2))}
    IN  IF is = {} THEN [title |-> title, year |-> NoInt]
        ELSE LET i == Min(is)
                 y == SkipWs(title, i + 2)
             IN  [title |-> Trim(SubSeq(title, 1, i)),
                  year |-> ParseInt(SubSeq(title, y, y + 3))]

\* title.match(/^(.+?)\s*[\(,]\s*(\d{4})[\)]?/): [title, year], or title.trim()
TraktTitle(title) ==
    LET SepAt(i) == SkipWs(title, i + 1)
        is == {i \in 1..Len(title) :
                  /\ SepAt(i) <= Len(title)
                  /\ title[SepAt(i)] \in {"(", ","}
                  /\ FourDigitsAt(title, SkipWs(title, SepAt(i) + 1))}
    IN  IF is = {} THEN [title |-> Trim(title), year |-> NoInt]
        ELSE LET i == Min(is)
                 y == SkipWs(title, SepAt(i) + 1)
             IN  [title |-> Trim(SubSeq(title, 1, i)),
                  year |-> ParseInt(SubSeq(title, y, y + 3))]

\* "(dddd)" at position q   (regex \(\d{4}\))
ParenYearAt(s, q) ==
    /\ q >= 1
    /\ q + 5 <= Len(s)
    /\ s[q] = "("
    /\ FourDigitsAt(s, q + 1)
    /\ s[q + 5] = ")"

\* title.match(/\((\d{4})\)/) and title.replace(/\s*\(\d{4}\)/, '').trim()
GenericTitle(title) ==
    LET qs == {q \in 1..Len(title) : ParenYearAt(title, q)}
        ss == {s \in 1..Len(title) : ParenYearAt(title, SkipWs(title, s))}
    IN  IF qs = {} THEN [title |-> title, year |-> NoInt]
        ELSE LET q == Min(qs)
                 s == Min(ss)
                 e == SkipWs(title, s) + 5
             IN  [title |-> Trim(SubSeq(title, 1, s - 1) \o
                                 SubSeq(title, e + 1, Len(title))),
                  year |-> ParseInt(SubSeq(title, q + 1, q + 4))]

\* end of the run of characters of class C that starts at i
RECURSIVE RunEnd(_, _, _)
RunEnd(s, i, C) ==
    IF i + 1 <= Len(s) /\ s[i + 1] \in C THEN RunEnd(s, i + 1, C) ELSE i

\* content.match(/<U+00E2><U+02DC><U+2026>+/): ratingMatch[0].length, the
\* number of characters of the leftmost match, or no rating
LetterboxdRating(content) ==
    LET ss == {i \in 1..Len(content) :
                  /\ i + 2 <= Len(content)
                  /\ content[i] = ACircumflex
                  /\ content[i + 1] = SmallTilde
                  /\ content[i + 2] = Ellipsis}
    IN  IF ss = {} THEN NoInt
        ELSE RunEnd(content, Min(ss) + 2, {Ellipsis}) - Min(ss) + 1

\* content.match(/(\d+(?:\.\d+)?)\s*\/\s*10/): parseFloat of group 1.
\* Contents here carry no decimal point, so group 1 is a run of digits.
TraktRating(content) ==
    LET SlashAt(s) == SkipWs(content, RunEnd(content, s, Digits) + 1)
        TenAt(s) == SkipWs(content, SlashAt(s) + 1)
        ss == {s \in 1..Len(content) :
                  /\ content[s] \in Digits
                  /\ SlashAt(s) <= Len(content)
                  /\ content[SlashAt(s)] = "/"
                  /\ TenAt(s) + 1 <= Len(content)
                  /\ content[TenAt(s)] = "1"
                  /\ content[TenAt(s) + 1] = "0"}
    IN  IF ss = {} THEN NoInt
        ELSE ParseInt(SubSeq(content, Min(ss), RunEnd(content, Min(ss), Digits)))

\* the initial draft with the id tag read before the trakt_id field
InitialMovieData_TagFirst(feedItem) ==
    [title |-> NoStr, year |-> NoInt, rating |-> NoInt, source |-> "unknown",
     sourceUrl |-> feedItem.link, watchedAt |-> feedItem.pubDate,
     externalIds |->
        [letterboxd_id |-> NULL,
         trakt_id |->
            IF feedItem.id # NoStr /\ TraktIdFromTag(feedItem.id) # NULL
            THEN TraktIdFromTag(feedItem.id)
            ELSE feedItem.trakt_id]]

\* the movieData object extractMovieData starts from
InitialMovieData(feedItem) ==
    [title |-> NoStr, year |-> NoInt, rating |-> NoInt, source |-> "unknown",
     sourceUrl |-> feedItem.link, watchedAt |-> feedItem.pubDate,
     externalIds |->
        [letterboxd_id |-> NULL,
         trakt_id |->
            IF feedItem.trakt_id # NULL THEN feedItem.trakt_id
            ELSE IF feedItem.id # NoStr THEN TraktIdFromTag(feedItem.id)
            ELSE NULL]]

\* Each parser returns [threw, data]; threw is the TypeError of calling
\* .match on an undefined title.
ExtractLetterboxdData(feedItem, movieData) ==
    IF feedItem.title = NoStr THEN [threw |-> TRUE, data |-> movieData]
    ELSE LET t == LetterboxdTitle(feedItem.title)
         IN  [threw |-> FALSE,
              data |-> [movieData EXCEPT
                 !.source = "letterboxd",
                 !.title = t.title,
                 !.year = t.year,
                 !.rating = IF Truthy(feedItem.content)
                            THEN LetterboxdRating(feedItem.content)
                            ELSE NoInt,
                 !.externalIds.letterboxd_id =
                     LetterboxdIdFromLink(feedItem.link)]]

ExtractTraktData(feedItem, movieData) ==
    LET t == IF Truthy(feedItem.title) THEN TraktTitle(feedItem.title)
             ELSE [title |-> NoStr, year |-> NoInt]
    IN  [threw |-> FALSE,
         data |-> [movieData EXCEPT
            !.source = "trakt",
            !.title = t.title,
            !.year = t.year,
            !.rating = IF Truthy(feedItem.content)
                       THEN TraktRating(feedItem.content)
                       ELSE NoInt,
            !.externalIds.trakt_id =
                IF Truthy(feedItem.link) /\ movieData.externalIds.trakt_id = NULL
                THEN TraktIdFromLink(feedItem.link)
                ELSE movieData.externalIds.trakt_id]]

ExtractGenericData(feedItem, movieData) ==
    IF feedItem.title = NoStr THEN [threw |-> TRUE, data |-> movieData]
    ELSE LET t == GenericTitle(feedItem.title)
         IN  [threw |-> FALSE,
              data |-> [movieData EXCEPT
                 !.source = "generic",
                 !.title = t.title,
                 !.year = t.year]]

\* the classification without its third rule: an item with no platform link
\* is generic whatever Trakt id it carries
ExtractMovieData_LinksOnly(feedItem) ==
    LET movieData == InitialMovieData(feedItem)
    IN  IF Truthy(feedItem.link) /\ Includes(feedItem.link, LetterboxdMarker)
        THEN ExtractLetterboxdData(feedItem, movieData)
        ELSE IF Truthy(feedItem.link) /\ Includes(feedItem.link, TraktMarker)
        THEN ExtractTraktData(feedItem, movieData)
        ELSE ExtractGenericData(feedItem, movieData)

\* extractMovieData: the initial draft, then the parser of the first rule
\* that applies
ExtractMovieData(feedItem) ==
    LET movieData == InitialMovieData(feedItem)
    IN  IF Truthy(feedItem.link) /\ Includes(feedItem.link, LetterboxdMarker)
        THEN ExtractLetterboxdData(feedItem, movieData)
        ELSE IF Truthy(feedItem.link) /\ Includes(feedItem.link, TraktMarker)
        THEN ExtractTraktData(feedItem, movieData)
        ELSE IF movieData.externalIds.trakt_id # NULL
        THEN ExtractTraktData(feedItem, movieData)
        ELSE ExtractGenericData(feedItem, movieData)


(***************************************************************************)
(* Enrichment Adapter.  The metadata service is the environment: every     *)
(* call gets one of the responses below.  A JSON value is a record with a  *)
(* null flag; a field map is a function from the names of its non-null     *)
(* fields.                                                                 *)
(***************************************************************************)
JsonNull == [null |-> TRUE]
EmptyMap == <<>>

\* search results the service can return (release_year stands for
\* new Date(release_date).getFullYear())
Tmdb603 == [id |-> "603", release_year |-> 1999, poster_path |-> "/p603.jpg",
            overview |-> "plot603"]
Tmdb604 == [id |-> "604", release_year |-> 2003, poster_path |-> NULL,
            overview |-> NULL]

SearchResponses ==
    {[kind |-> "throw"], [kind |-> "http_error"]} \cup
    {[kind |-> "ok", body |-> [null |-> FALSE, results |-> r]] :
        r \in {<<>>, <<Tmdb603>>, <<Tmdb604>>, <<Tmdb604, Tmdb603>>}}

\* details of a movie: the search fields plus credits; genres is an array
\* unless the body is malformed
DetailsBody(c, wellFormed) ==
    [null |-> FALSE, id |-> c.id, poster_path |-> c.poster_path,
     overview |-> c.overview, director |-> "director" \o c.id,
     genresIsArray |-> wellFormed]

DetailsResponses(c) ==
    {[kind |-> "throw"], [kind |-> "http_error"]} \cup
    {[kind |-> "ok", body |-> DetailsBody(c, w)] : w \in BOOLEAN}

\* tmdbRequest: null without a key, on a non-OK status and on a thrown
\* fetch; the parsed body otherwise
TmdbRequest(keySet, response) ==
    IF ~keySet THEN JsonNull
    ELSE IF response.kind = "ok" THEN response.body
    ELSE JsonNull

\* searchTMDBMovie: best match of the results, or null
SearchTMDBMovie(keySet, year, response) ==
    LET searchResults == TmdbRequest(keySet, response)
    IN  IF searchResults.null THEN JsonNull
        ELSE IF Len(searchResults.results) = 0 THEN JsonNull
        ELSE LET results == searchResults.results
                 exact == {i \in 1..Len(results) : results[i].release_year = year}
             IN  IF year # NoInt /\ year # 0 /\ exact # {}
                 THEN [null |-> FALSE, movie |-> results[Min(exact)]]
                 ELSE [null |-> FALSE, movie |-> results[1]]

GetTMDBMovieDetails(keySet, response) == TmdbRequest(keySet, response)

\* buildImageUrls: base URL + size + path (poster only; the backdrop is
\* built the same way and read by no operation modelled here)
BuildImageUrls(data) ==
    IF data.poster_path = NULL THEN NULL
    ELSE IF data.poster_path = "/p603.jpg"
    THEN "https://image.tmdb.org/t/p/w500/p603.jpg"
    ELSE "https://image.tmdb.org/t/p/w500/other.jpg"

\* extractTMDBData: [threw, data]; threw is genres.map on a non-array
ExtractTMDBData(tmdbMovie, tmdbDetails) ==
    LET data == IF tmdbDetails.null THEN tmdbMovie ELSE tmdbDetails
        value == [poster_url |-> BuildImageUrls(data),
                  tmdb_id |-> data.id,
                  plot_summary |-> data.overview,
                  director |-> IF tmdbDetails.null THEN NULL
                               ELSE tmdbDetails.director]
        keys == {k \in DOMAIN value : value[k] # NULL}
    IN  IF ~tmdbDetails.null /\ ~tmdbDetails.genresIsArray
        THEN [threw |-> TRUE, data |-> EmptyMap]
        ELSE [threw |-> FALSE, data |-> [k \in keys |-> value[k]]]

\* enrichMovieWithTMDB with a search request that lets a thrown fetch escape
EnrichMovieWithTMDB_SearchThrows(keySet, year, searchResponse, detailsResponse) ==
    LET found == SearchTMDBMovie(keySet, year, searchResponse)
        calls == IF keySet THEN 1 ELSE 0
    IN  IF found.null
        THEN [raised |-> keySet /\ searchResponse.kind = "throw", data |-> EmptyMap,
              searchCalls |-> calls, detailsCalls |-> 0]
        ELSE LET tmdbDetails == GetTMDBMovieDetails(keySet, detailsResponse)
                 extracted == ExtractTMDBData(found.movie, tmdbDetails)
             IN  [raised |-> FALSE,
                  data |-> IF extracted.threw THEN EmptyMap ELSE extracted.data,
                  searchCalls |-> calls, detailsCalls |-> calls]

\* enrichMovieWithTMDB without its try/catch
EnrichMovieWithTMDB_NoCatch(keySet, year, searchResponse, detailsResponse) ==
    LET found == SearchTMDBMovie(keySet, year, searchResponse)
        calls == IF keySet THEN 1 ELSE 0
    IN  IF found.null
        THEN [raised |-> FALSE, data |-> EmptyMap,
              searchCalls |-> calls, detailsCalls |-> 0]
        ELSE LET tmdbDetails == GetTMDBMovieDetails(keySet, detailsResponse)
                 extracted == ExtractTMDBData(found.movie, tmdbDetails)
             IN  [raised |-> extracted.threw,
                  data |-> IF extracted.threw THEN EmptyMap ELSE extracted.data,
                  searchCalls |-> calls, detailsCalls |-> calls]

\* enrichMovieWithTMDB with a search that is sent a second time when the
\* first attempt gives no match
EnrichMovieWithTMDB_RetrySearch(keySet, year, searchResponse, detailsResponse) ==
    LET found == SearchTMDBMovie(keySet, year, searchResponse)
        calls == IF keySet THEN 1 ELSE 0
    IN  IF found.null
        THEN [raised |-> FALSE, data |-> EmptyMap,
              searchCalls |-> 2 * calls, detailsCalls |-> 0]
        ELSE LET tmdbDetails == GetTMDBMovieDetails(keySet, detailsResponse)
                 extracted == ExtractTMDBData(found.movie, tmdbDetails)
             IN  [raised |-> FALSE,
                  data |-> IF extracted.threw THEN EmptyMap ELSE extracted.data,
                  searchCalls |-> calls, detailsCalls |-> calls]

\* enrichMovieWithTMDB: [raised, data, searchCalls, detailsCalls]
EnrichMovieWithTMDB(keySet, year, searchResponse, detailsResponse) ==
    LET found == SearchTMDBMovie(keySet, year, searchResponse)
        calls == IF keySet THEN 1 ELSE 0
    IN  IF found.null
        THEN [raised |-> FALSE, data |-> EmptyMap,
              searchCalls |-> calls, detailsCalls |-> 0]
        ELSE LET tmdbDetails == GetTMDBMovieDetails(keySet, detailsResponse)
                 extracted == ExtractTMDBData(found.movie, tmdbDetails)
             IN  \* catch (error) { return {} }
                 [raised |-> FALSE,
                  data |-> IF extracted.threw THEN EmptyMap ELSE extracted.data,
                  searchCalls |-> calls, detailsCalls |-> calls]

(***************************************************************************)
(* The store: tables movies and movie_watches with their constraints.      *)
(***************************************************************************)
RatingMin == 0
RatingMax == 10

Field(map, k) == IF k \in DOMAIN map THEN map[k] ELSE NULL

NewMovieRow(id, base, tmdbData) ==
    [id |-> id, title |-> base.title, year |-> base.year,
     letterboxd_id |-> base.letterboxd_id, trakt_id |-> base.trakt_id,
     tmdb_id |-> Field(tmdbData, "tmdb_id"),
     poster_url |-> Field(tmdbData, "poster_url"),
     plot_summary |-> Field(tmdbData, "plot_summary"),
     director |-> Field(tmdbData, "director")]

UpdatedMovieRow(row, tmdbData) ==
    [row EXCEPT
        !.tmdb_id = IF "tmdb_id" \in DOMAIN tmdbData THEN tmdbData["tmdb_id"] ELSE @,
        !.poster_url = IF "poster_url" \in DOMAIN tmdbData THEN tmdbData["poster_url"] ELSE @,
        !.plot_summary = IF "plot_summary" \in DOMAIN tmdbData THEN tmdbData["plot_summary"] ELSE @,
        !.director = IF "director" \in DOMAIN tmdbData THEN tmdbData["director"] ELSE @]

\* movies with UNIQUE on letterboxd_id only
UniqueViolation_LetterboxdOnly(rows, row) ==
    \E m \in rows :
        /\ m.id # row.id
        /\ row.letterboxd_id # NULL
        /\ m.letterboxd_id = row.letterboxd_id

\* UNIQUE columns of movies: no other row holds the same non-null value
UniqueViolation(rows, row) ==
    \E m \in rows :
        /\ m.id # row.id
        /\ \/ row.letterboxd_id # NULL /\ m.letterboxd_id = row.letterboxd_id
           \/ row.trakt_id # NULL /\ m.trakt_id = row.trakt_id
           \/ row.tmdb_id # NULL /\ m.tmdb_id = row.tmdb_id

\* movies without NOT NULL on title
MovieInsertError_NullableTitle(rows, row) ==
    IF UniqueViolation(rows, row) THEN "unique" ELSE "none"

\* INSERT INTO movies: the error of the constraint it violates, or "none"
MovieInsertError(rows, row) ==
    IF row.title = NoStr THEN "not_null"
    ELSE IF UniqueViolation(rows, row) THEN "unique"
    ELSE "none"

\* UPDATE movies ... .eq('id', id).select().single()
MovieUpdateError(rows, id, tmdbData) ==
    IF ~\E m \in rows : m.id = id THEN "no_rows"
    ELSE LET m == CHOOSE m \in rows : m.id = id
         IN  IF UniqueViolation(rows, UpdatedMovieRow(m, tmdbData))
             THEN "unique" ELSE "none"

\* movie_watches without the foreign key to movies
WatchInsertError_NoForeignKey(rows, watch) ==
    IF watch.personal_rating # NoInt
       /\ ~(watch.personal_rating >= RatingMin
            /\ watch.personal_rating <= RatingMax)
    THEN "check"
    ELSE "none"

\* movie_watches with CHECK (personal_rating >= 0 AND personal_rating < 10)
WatchInsertError_ExclusiveMax(rows, watch) ==
    IF ~\E m \in rows : m.id = watch.movie_id THEN "foreign_key"
    ELSE IF watch.personal_rating # NoInt
            /\ ~(watch.personal_rating >= RatingMin
                 /\ watch.personal_rating < RatingMax)
    THEN "check"
    ELSE "none"

\* INSERT INTO movie_watches: foreign key and rating CHECK
WatchInsertError(rows, watch) ==
    IF ~\E m \in rows : m.id = watch.movie_id THEN "foreign_key"
    ELSE IF watch.personal_rating # NoInt
            /\ ~(watch.personal_rating >= RatingMin
                 /\ watch.personal_rating <= RatingMax)
    THEN "check"
    ELSE "none"

\* a lookup whose result is dropped
MaybeSingle_AlwaysNull(matching) == JsonNull

\* .select('*').eq(...).maybeSingle(): the row when exactly one matches,
\* null when none or several do
MaybeSingle(matching) ==
    IF Cardinality(matching) = 1
    THEN [null |-> FALSE, row |-> CHOOSE m \in matching : TRUE]
    ELSE JsonNull


(***************************************************************************)
(* Requests the environment sends.                                         *)
(***************************************************************************)
PubDate == "2024-09-15T12:00:00Z"

FeedItem(id, title, trakt_id, content, link, guid) ==
    [id |-> id, title |-> title, trakt_id |-> trakt_id, content |-> content,
     link |-> link, guid |-> guid, pubDate |-> PubDate]

LetterboxdLink(slug) == <<"https:", "", "letterboxd.com", "msb", "film", slug, "">>
TraktLink(slug) == <<"https:", "", "trakt.tv", "movies", slug>>

TitleA1999Comma == <<"A", ",", " ", "1", "9", "9", "9">>
TitleA1999Paren == <<"A", " ", "(", "1", "9", "9", "9", ")">>
TitleC0000Paren == <<"C", " ", "(", "0", "0", "0", "0", ")">>
TitleB == <<"B">>
TitleD2003Paren == <<"D", " ", "(", "2", "0", "0", "3", ")">>

\* a body the rating pattern matches over six characters
RatingMatchOfSix ==
    <<ACircumflex, SmallTilde, Ellipsis, Ellipsis, Ellipsis, Ellipsis,
      " ", "o", "k">>
TenOfTen == <<"1", "0", "/", "1", "0">>
ElevenOfTen == <<"1", "1", " ", "/", " ", "1", "0">>

ItemLetterboxdA == FeedItem(NoStr, TitleA1999Comma, NULL, RatingMatchOfSix,
                            LetterboxdLink("a"), LetterboxdLink("a"))
ItemGenericA == FeedItem(NoStr, TitleA1999Paren, NULL, NoStr, NoStr, <<"guid-a">>)
ItemGenericC0 == FeedItem(NoStr, TitleC0000Paren, NULL, NoStr, NoStr, <<"guid-c">>)
ItemGenericB == FeedItem(NoStr, TitleB, NULL, NoStr, NoStr, <<"guid-b">>)
ItemTraktB == FeedItem(NoStr, TitleB, NULL, TenOfTen, TraktLink("b"), NoStr)
ItemTraktA == FeedItem(NoStr, TitleA1999Paren, NULL, ElevenOfTen,
                       TraktLink("a-1999"), NoStr)
ItemTraktD == FeedItem(NoStr, TitleD2003Paren, NULL, TenOfTen,
                       TraktLink("d-2003"), NoStr)
ItemNoTitleLetterboxd == FeedItem(NoStr, NoStr, NULL, RatingMatchOfSix,
                                  LetterboxdLink("a"), NoStr)
ItemNoTitleTrakt == FeedItem(<<TraktMovieTag, "550", "">>, NoStr, NULL, TenOfTen,
                             TraktLink("b"), NoStr)
ItemNoTitleGeneric == FeedItem(<<"urn:1">>, NoStr, NULL, RatingMatchOfSix, NoStr, <<"guid-n">>)
ItemEmpty == FeedItem(NoStr, NoStr, NULL, NoStr, NoStr, NoStr)

TitledItems == {ItemLetterboxdA, ItemGenericA, ItemGenericC0, ItemGenericB,
                ItemTraktB, ItemTraktA}
UntitledItems == {ItemNoTitleLetterboxd, ItemNoTitleTrakt, ItemNoTitleGeneric,
                  ItemEmpty}

\* a payload is { item: fields } (wrapped) or the fields themselves
Payloads ==
    {[wrapped |-> TRUE, fields |-> i] : i \in TitledItems \cup UntitledItems}
    \cup {[wrapped |-> FALSE, fields |-> i] : i \in UntitledItems \cup {ItemGenericB}}

ConcPayloads ==
    {[wrapped |-> TRUE, fields |-> i] : i \in {ItemLetterboxdA, ItemGenericA}}

\* feed-item titles are made of at most MaxTitleTokens tokens and feed-item
\* bodies of at most MaxContentTokens tokens in ExtractSpec
MaxTitleTokens == 5
MaxContentTokens == 6

\* the strings made of at most n of the given tokens
RECURSIVE TokenStrings(_, _)
TokenStrings(tokens, n) ==
    IF n = 0 THEN {<<>>}
    ELSE LET shorter == TokenStrings(tokens, n - 1)
         IN  shorter \cup {s \o t : s \in shorter, t \in tokens}

\* feed-item titles: a name, commas with and without a blank, and years
TitleTokens ==
    {<<"A">>, <<",">>, <<",", " ">>, <<"1", "9", "9", "9">>,
     <<"2", "0", "0", "1">>}

\* feed-item bodies: the star, the characters of the rating pattern (its
\* first two together) and a letter
ContentTokens ==
    {<<BlackStar>>, <<ACircumflex, SmallTilde>>, <<Ellipsis>>, <<"x">>}

\* Letterboxd feed items with every title and with every body
ExtractItems ==
    {FeedItem(NoStr, t, NULL, NoStr, LetterboxdLink("a"), NoStr) :
        t \in TokenStrings(TitleTokens, MaxTitleTokens)}
    \cup {FeedItem(NoStr, TitleA1999Comma, NULL, c, LetterboxdLink("a"), NoStr) :
        c \in TokenStrings(ContentTokens, MaxContentTokens)}

\* two events about two movies that differ in their external ids, titles
\* and years
IndepPayloads ==
    {[wrapped |-> TRUE, fields |-> i] : i \in {ItemLetterboxdA, ItemTraktD}}

\* deliveries about two different movies
AdminPayloads ==
    {[wrapped |-> TRUE, fields |-> i] : i \in {ItemLetterboxdA, ItemGenericB}}

\* an id tag of the Trakt feed, a Trakt id given as a field of the payload
TraktTag550 == <<TraktMovieTag, "550", "">>
PayloadTraktId == "603"

\* feed items with every combination of id tag, title, trakt_id field and
\* link
SourceItems ==
    {FeedItem(id, title, trakt_id, TenOfTen, link, <<"guid-s">>) :
        id \in {NoStr, TraktTag550},
        title \in {NoStr, TitleA1999Paren},
        trakt_id \in {NULL, PayloadTraktId},
        link \in {NoStr, LetterboxdLink("a"), TraktLink("b")}}

SourcePayloads == {[wrapped |-> TRUE, fields |-> i] : i \in SourceItems}

\* deliveries about the movie of the duplicated rows, with and without a
\* Letterboxd id, and about another movie
AfterRacePayloads ==
    {[wrapped |-> TRUE, fields |-> i] :
        i \in {ItemGenericA, ItemLetterboxdA, ItemGenericB}}

\* handleEchoFeedWebhook's choice of the feed item: payload.item, else the
\* payload itself when it has an id or a title, else an error
FeedItemOf(payload) ==
    IF payload.wrapped THEN [found |-> TRUE, item |-> payload.fields]
    ELSE IF Truthy(payload.fields.id) \/ Truthy(payload.fields.title)
    THEN [found |-> TRUE, item |-> payload.fields]
    ELSE [found |-> FALSE, item |-> payload.fields]

(***************************************************************************)
(* Routing: the handler of Deno.serve.  A pathname is the sequence of the  *)
(* segments that follow each "/": "/movies/watches" is                     *)
(* <<"movies", "watches">> and "/" is <<"">>.  The segments are drawn from  *)
(* a vocabulary in which no word is the beginning of another segment, so   *)
(* path.includes('/word') is "some segment is word".                       *)
(***************************************************************************)
\* path.split('/')
PathSplit(path) == <<"">> \o path

\* path.includes('/' + word)
PathIncludes(path, word) == \E i \in 1..Len(path) : path[i] = word

\* path.includes('/' + word + '/')
PathIncludesDir(path, word) == \E i \in 1..(Len(path) - 1) : path[i] = word

\* the branch of Deno.serve a request takes
Route(method, path) ==
    IF method = "OPTIONS" THEN "options"
    ELSE IF method = "POST" THEN "webhook"
    ELSE IF method = "DELETE" /\ PathIncludes(path, "cleanup") THEN "cleanup"
    ELSE IF PathIncludes(path, "debug") /\ method = "POST" THEN "debug"
    ELSE IF PathIncludesDir(path, "movie") /\ Len(PathSplit(path)) >= 3
    THEN "movie_by_id"
    ELSE IF PathIncludes(path, "movies") \/ path = <<"">> THEN "movies"
    ELSE IF PathIncludes(path, "watches") THEN "watches"
    ELSE IF PathIncludes(path, "stats") THEN "stats"
    ELSE "default"

\* const movieId = path.split('/')[2]
MovieIdSegment(path) == PathSplit(path)[3]

\* the uuid a text denotes, for the comparison .eq('id', text) on a uuid
\* column: a text that is no uuid makes the store answer with an error
UuidOf(text) ==
    CASE text = "1" -> 1
      [] text = "2" -> 2
      [] text = "3" -> 3
      [] text = "9" -> 9
      [] OTHER -> NoInt

\* pathnames: the documented ones, which all start with the function's name
DocumentedGetPaths ==
    {<<"movies">>, <<"movies", "watches">>, <<"movies", "stats">>}
    \cup {<<"movies", "movie", id>> : id \in {"1", "9"}}

\* and pathnames without the function's name
OtherGetPaths ==
    {<<"">>, <<"watches">>, <<"stats">>, <<"health">>}
    \cup {<<"movie", id>> : id \in {"1", "9", "abc"}}

GetPaths == DocumentedGetPaths \cup OtherGetPaths

PostPaths == {<<"movies">>, <<"movies", "debug">>}

CleanupPaths == {<<"movies", "cleanup">>}

\* the pathname that reaches getMovieStats
StatsPaths == {<<"stats">>}

(***************************************************************************)
(* Bounds of the model.                                                    *)
(***************************************************************************)
\* requests accepted in a run of Spec, and in a run of ConcSpec
MaxRequests == 2
MaxConcRequests == 2
\* deliveries accepted in a run of IndepSpec
MaxIndepRequests == 2
\* requests accepted in a run of AdminSpec
MaxAdminRequests == 3

\* deliveries accepted in a run of SourceSpec
MaxSourceRequests == 2

\* Movies in the store, and requests accepted, in a run of StatsSpec
MaxMovieCount == 40
MaxStatsRequests == 1

\* entries of the Trakt watch history and of the Trakt watched list, in a
\* run of BackfillSpec
MaxHistoryEntries == 2
MaxWatchedMovies == 2

\* deliveries accepted in a run of AfterRaceSpec
MaxAfterRaceRequests == 2

Procs == {1, 2}

(***************************************************************************)
(* State.                                                                  *)
(*   movies, watches     the two tables                                    *)
(*   nextMovieId, nextWatchId   the ids gen_random_uuid() hands out next   *)
(*   tmdbKey             whether TMDB_API_KEY is set                       *)
(*   req[p]              the request handler invocation p is running, with *)
(*                       its method, pathname and query, the store as it   *)
(*                       was when the request arrived (start) and the      *)
(*                       response (resp, body)                             *)
(*   hist                summaries of the completed requests, in order     *)
(*   received            number of webhook and cleanup requests accepted   *)
(*   backfill            the run of the Trakt backfill script: its mode,   *)
(*                       what Trakt returned, its position, its set of     *)
(*                       processed keys, its counters and the requests it  *)
(*                       has sent to the movie API                         *)
(***************************************************************************)
VARIABLES movies, watches, nextMovieId, nextWatchId, tmdbKey, req, hist,
          received, backfill

vars == <<movies, watches, nextMovieId, nextWatchId, tmdbKey, req, hist,
          received, backfill>>

NoDraft == InitialMovieData(ItemEmpty)
NoEnrich == [invocations |-> 0, searchCalls |-> 0, detailsCalls |-> 0,
             search |-> "none", details |-> "none", raised |-> FALSE,
             found |-> JsonNull]
NoResp == [status |-> 0, error |-> "none", movieId |-> 0, watchId |-> 0,
           enriched |-> FALSE]
\* what the queries of getMovieStats and the deletes of handleCleanup returned
NoReads == [movieCount |-> 0, watchCount |-> 0, moviesWithPosters |-> 0,
            deletedWatches |-> JsonNull]
NoStats == [total_movies |-> 0, total_watches |-> 0, movies_with_posters |-> 0,
            poster_coverage |-> 0, average_rating_tenths |-> 0]
\* the JSON body of a response to a GET or to a cleanup
NoBody == [handler |-> "none", count |-> 0, movies |-> <<>>, watches |-> <<>>,
           movie |-> JsonNull, stats |-> NoStats,
           deleted |-> [watches |-> 0, movies |-> 0]]

IdleReq ==
    [pc |-> "idle", kind |-> "none", item |-> ItemEmpty, draft |-> NoDraft,
     existing |-> JsonNull, tmdbData |-> EmptyMap, enrich |-> NoEnrich,
     movie |-> JsonNull, created |-> FALSE, movieIds |-> {},
     resp |-> NoResp, start |-> [movies |-> {}, watches |-> {}],
     method |-> "none", path |-> <<>>, limit |-> NoInt, posters |-> FALSE,
     reads |-> NoReads, body |-> NoBody]

\* the backfill script is not running
NoBackfill ==
    [pc |-> "off", mode |-> "none", history |-> <<>>, watched |-> <<>>, i |-> 0,
     processedMovies |-> {},
     stats |-> [moviesProcessed |-> 0, watchesAdded |-> 0, errors |-> 0,
                skipped |-> 0],
     sent |-> <<>>]


Init ==
    /\ movies = {}
    /\ watches = {}
    /\ nextMovieId = 1
    /\ nextWatchId = 1
    /\ tmdbKey \in BOOLEAN
    /\ req = [p \in Procs |-> IdleReq]
    /\ hist = <<>>
    /\ received = 0
    /\ backfill = NoBackfill

YearTruthy(year) == year # NoInt /\ year # 0

\* summary of a completed request
Summary(r) ==
    [kind |-> r.kind, item |-> r.item, draft |-> r.draft, movie |-> r.movie,
     resp |-> r.resp, created |-> r.created, enrich |-> r.enrich,
     tmdbData |-> r.tmdbData]

Finish(p, r, resp) ==
    LET done == [r EXCEPT !.pc = "done", !.resp = resp]
    IN  /\ req' = [req EXCEPT ![p] = done]
        /\ hist' = Append(hist, Summary(done))

ErrorResp(status, error) == [NoResp EXCEPT !.status = status, !.error = error]


(***************************************************************************)
(* Webhook ingestion: handleEchoFeedWebhook -> processMovieFeedItem ->     *)
(* extractMovieData, upsertMovie, createMovieWatch.  Each action is one    *)
(* await on the store (or on the metadata service) with the synchronous    *)
(* code that follows it.                                                   *)
(***************************************************************************)
\* upsertMovie, lines 295-346: where the handler goes once the Letterboxd
\* lookup is behind it
AfterLetterboxdLookup(r) ==
    IF r.existing.null /\ Truthy(r.draft.title) /\ YearTruthy(r.draft.year)
    THEN [r EXCEPT !.pc = "lookup_title_year"]
    ELSE IF ~r.existing.null
    THEN IF r.existing.row.poster_url = NULL /\ tmdbKey
         THEN [r EXCEPT !.pc = "enrich_existing"]
         ELSE [r EXCEPT !.pc = "insert_watch", !.movie = r.existing]
    ELSE IF tmdbKey /\ Truthy(r.draft.title) /\ YearTruthy(r.draft.year)
    THEN [r EXCEPT !.pc = "enrich_new"]
    ELSE [r EXCEPT !.pc = "insert_movie"]

\* the same after the (title, year) lookup
AfterTitleYearLookup(r) ==
    IF ~r.existing.null
    THEN IF r.existing.row.poster_url = NULL /\ tmdbKey
         THEN [r EXCEPT !.pc = "enrich_existing"]
         ELSE [r EXCEPT !.pc = "insert_watch", !.movie = r.existing]
    ELSE IF tmdbKey /\ Truthy(r.draft.title) /\ YearTruthy(r.draft.year)
    THEN [r EXCEPT !.pc = "enrich_new"]
    ELSE [r EXCEPT !.pc = "insert_movie"]

\* POST: parse the payload, pick the feed item, extract the draft
Receive(p, path, payload, limit) ==
    /\ req[p].pc \in {"idle", "done"}
    /\ received < limit
    /\ received' = received + 1
    /\ LET item == FeedItemOf(payload)
           extracted == ExtractMovieData(item.item)
           r == [IdleReq EXCEPT !.kind = "webhook", !.item = item.item,
                                !.method = "POST", !.path = path,
                                !.start = [movies |-> movies, watches |-> watches]]
       IN  IF ~item.found
           THEN Finish(p, r, ErrorResp(500, "no_feed_item"))
           ELSE IF extracted.threw
           THEN Finish(p, r, ErrorResp(500, "type_error"))
           ELSE LET d == [r EXCEPT !.draft = extracted.data]
                IN  /\ req' = [req EXCEPT ![p] =
                          IF d.draft.externalIds.letterboxd_id # NULL
                          THEN [d EXCEPT !.pc = "lookup_letterboxd"]
                          ELSE AfterLetterboxdLookup(d)]
                    /\ hist' = hist
    /\ UNCHANGED <<movies, watches, nextMovieId, nextWatchId, tmdbKey, backfill>>

ReceiveWebhook(p) ==
    \E path \in PostPaths, payload \in Payloads :
        /\ Route("POST", path) = "webhook"
        /\ Receive(p, path, payload, MaxRequests)

ReceiveWebhookAdmin(p) ==
    \E path \in {<<"movies">>}, payload \in AdminPayloads :
        /\ Route("POST", path) = "webhook"
        /\ Receive(p, path, payload, MaxAdminRequests)

ReceiveWebhookIndep(p) ==
    \E path \in {<<"movies">>}, payload \in IndepPayloads :
        /\ Route("POST", path) = "webhook"
        /\ Receive(p, path, payload, MaxIndepRequests)

ReceiveWebhookConc(p) ==
    \E path \in {<<"movies">>}, payload \in ConcPayloads :
        /\ Route("POST", path) = "webhook"
        /\ Receive(p, path, payload, MaxConcRequests)

ReceiveWebhookSource(p) ==
    \E path \in {<<"movies">>}, payload \in SourcePayloads :
        /\ Route("POST", path) = "webhook"
        /\ Receive(p, path, payload, MaxSourceRequests)

ReceiveWebhookAfterRace(p) ==
    \E path \in {<<"movies">>}, payload \in AfterRacePayloads :
        /\ Route("POST", path) = "webhook"
        /\ Receive(p, path, payload, MaxAfterRaceRequests)

\* .eq('letterboxd_id', ...).maybeSingle()
LookupLetterboxd(p) ==
    /\ req[p].pc = "lookup_letterboxd"
    /\ LET matching == {m \in movies :
                          m.letterboxd_id = req[p].draft.externalIds.letterboxd_id}
           r == [req[p] EXCEPT !.existing = MaybeSingle(matching)]
       IN  req' = [req EXCEPT ![p] = AfterLetterboxdLookup(r)]
    /\ UNCHANGED <<movies, watches, nextMovieId, nextWatchId, tmdbKey, backfill, hist,
                   received>>

\* the (title, year) lookup reading the result of a query that was never
\* awaited: it finds no row
LookupTitleYear_NotAwaited(p) ==
    /\ req[p].pc = "lookup_title_year"
    /\ req' = [req EXCEPT ![p] =
          AfterTitleYearLookup([req[p] EXCEPT !.existing = JsonNull])]
    /\ UNCHANGED <<movies, watches, nextMovieId, nextWatchId, tmdbKey, backfill, hist,
                   received>>

\* the (title, year) lookup without its two .eq filters: any single stored
\* row is taken for the movie
LookupTitleYear_Unfiltered(p) ==
    /\ req[p].pc = "lookup_title_year"
    /\ req' = [req EXCEPT ![p] =
          AfterTitleYearLookup([req[p] EXCEPT !.existing = MaybeSingle(movies)])]
    /\ UNCHANGED <<movies, watches, nextMovieId, nextWatchId, tmdbKey, backfill, hist,
                   received>>

\* .eq('title', ...).eq('year', ...).maybeSingle()
LookupTitleYear(p) ==
    /\ req[p].pc = "lookup_title_year"
    /\ LET matching == {m \in movies : /\ m.title = req[p].draft.title
                                       /\ m.year = req[p].draft.year}
           r == [req[p] EXCEPT !.existing = MaybeSingle(matching)]
       IN  req' = [req EXCEPT ![p] = AfterTitleYearLookup(r)]
    /\ UNCHANGED <<movies, watches, nextMovieId, nextWatchId, tmdbKey, backfill, hist,
                   received>>

\* what one invocation of enrichMovieWithTMDB leaves in the request
Enriched(r, year, searchResponse, detailsResponse) ==
    LET e == EnrichMovieWithTMDB(tmdbKey, year, searchResponse, detailsResponse)
        found == SearchTMDBMovie(tmdbKey, year, searchResponse)
    IN  [r EXCEPT
           !.tmdbData = e.data,
           !.enrich = [invocations |-> r.enrich.invocations + 1,
                       searchCalls |-> r.enrich.searchCalls + e.searchCalls,
                       detailsCalls |-> r.enrich.detailsCalls + e.detailsCalls,
                       search |-> IF searchResponse.kind # "ok"
                                  THEN searchResponse.kind
                                  ELSE IF found.null THEN "zero" ELSE "ok",
                       details |-> IF found.null THEN "none"
                                   ELSE IF detailsResponse.kind # "ok"
                                   THEN detailsResponse.kind
                                   ELSE IF detailsResponse.body.genresIsArray
                                   THEN "ok" ELSE "malformed",
                       raised |-> e.raised,
                       found |-> found]]

\* the responses the service can give to one invocation
ServiceAnswers(year) ==
    {<<sr, dr>> : sr \in SearchResponses, dr \in {[kind |-> "throw"]}} \cup
    UNION {{<<sr, dr>> : dr \in DetailsResponses(SearchTMDBMovie(TRUE, year, sr).movie)} :
              sr \in {x \in SearchResponses : ~SearchTMDBMovie(TRUE, year, x).null}}

\* existing movie without a poster: enrichMovieWithTMDB(existing.title, existing.year)
EnrichExisting(p) ==
    /\ req[p].pc = "enrich_existing"
    /\ \E a \in ServiceAnswers(req[p].existing.row.year) :
          LET r == Enriched(req[p], req[p].existing.row.year, a[1], a[2])
          IN  IF r.enrich.raised
              THEN Finish(p, r, ErrorResp(500, "enrichment_raised"))
              ELSE /\ req' = [req EXCEPT ![p] =
                         IF DOMAIN r.tmdbData # {}
                         THEN [r EXCEPT !.pc = "update_existing"]
                         ELSE [r EXCEPT !.pc = "insert_watch", !.movie = r.existing]]
                   /\ hist' = hist
    /\ UNCHANGED <<movies, watches, nextMovieId, nextWatchId, tmdbKey, backfill,
                   received>>

\* the update of an existing movie writing the draft's external ids too
UpdateExisting_WritesIds(p) ==
    /\ req[p].pc = "update_existing"
    /\ LET r == req[p]
           id == r.existing.row.id
           old == CHOOSE m \in movies : m.id = id
           new == [UpdatedMovieRow(old, r.tmdbData) EXCEPT
                     !.letterboxd_id = r.draft.externalIds.letterboxd_id,
                     !.trakt_id = r.draft.externalIds.trakt_id]
       IN  /\ movies' = (movies \ {old}) \cup {new}
           /\ req' = [req EXCEPT ![p] =
                 [r EXCEPT !.pc = "insert_watch",
                           !.movie = [null |-> FALSE, row |-> new]]]
    /\ UNCHANGED <<watches, nextMovieId, nextWatchId, tmdbKey, backfill, hist, received>>

\* .update(tmdbData).eq('id', existingMovie.id).select().single()
UpdateExisting(p) ==
    /\ req[p].pc = "update_existing"
    /\ LET r == req[p]
           id == r.existing.row.id
           error == MovieUpdateError(movies, id, r.tmdbData)
       IN  IF error = "none"
           THEN LET old == CHOOSE m \in movies : m.id = id
                    new == UpdatedMovieRow(old, r.tmdbData)
                IN  /\ movies' = (movies \ {old}) \cup {new}
                    /\ req' = [req EXCEPT ![p] =
                          [r EXCEPT !.pc = "insert_watch",
                                    !.movie = [null |-> FALSE, row |-> new]]]
           ELSE /\ movies' = movies
                /\ req' = [req EXCEPT ![p] =
                      [r EXCEPT !.pc = "insert_watch", !.movie = r.existing]]
    /\ UNCHANGED <<watches, nextMovieId, nextWatchId, tmdbKey, backfill, hist,
                   received>>

\* new movie with title and year: enrichMovieWithTMDB(title, year)
EnrichNew(p) ==
    /\ req[p].pc = "enrich_new"
    /\ \E a \in ServiceAnswers(req[p].draft.year) :
          LET r == Enriched(req[p], req[p].draft.year, a[1], a[2])
          IN  IF r.enrich.raised
              THEN Finish(p, r, ErrorResp(500, "enrichment_raised"))
              ELSE /\ req' = [req EXCEPT ![p] = [r EXCEPT !.pc = "insert_movie"]]
                   /\ hist' = hist
    /\ UNCHANGED <<movies, watches, nextMovieId, nextWatchId, tmdbKey, backfill,
                   received>>

\* baseMovieData of upsertMovie
BaseMovieData(movieData) ==
    [title |-> movieData.title, year |-> movieData.year,
     letterboxd_id |-> movieData.externalIds.letterboxd_id,
     trakt_id |-> movieData.externalIds.trakt_id]

\* .insert({ ...baseMovieData, ...tmdbData }).select().single()
InsertMovie(p) ==
    /\ req[p].pc = "insert_movie"
    /\ LET r == req[p]
           row == NewMovieRow(nextMovieId, BaseMovieData(r.draft), r.tmdbData)
           error == MovieInsertError(movies, row)
       IN  IF error = "none"
           THEN /\ movies' = movies \cup {row}
                /\ nextMovieId' = nextMovieId + 1
                /\ req' = [req EXCEPT ![p] =
                      [r EXCEPT !.pc = "insert_watch", !.created = TRUE,
                                !.movie = [null |-> FALSE, row |-> row]]]
                /\ hist' = hist
           ELSE /\ UNCHANGED <<movies, nextMovieId>>
                /\ Finish(p, r, ErrorResp(500, error))
    /\ UNCHANGED <<watches, nextWatchId, tmdbKey, backfill, received>>

\* the row createMovieWatch inserts
NewWatchRow(id, movieId, feedItem, movieData) ==
    [id |-> id, movie_id |-> movieId, watched_at |-> movieData.watchedAt,
     personal_rating |-> movieData.rating, source |-> movieData.source,
     external_id |-> IF Truthy(feedItem.guid) THEN feedItem.guid ELSE feedItem.link]

\* createMovieWatch with a compensating delete of the Movie just created
InsertWatch_Rollback(p) ==
    /\ req[p].pc = "insert_watch"
    /\ LET r == req[p]
           watch == NewWatchRow(nextWatchId, r.movie.row.id, r.item, r.draft)
           error == WatchInsertError(movies, watch)
       IN  IF error = "none"
           THEN /\ watches' = watches \cup {watch}
                /\ nextWatchId' = nextWatchId + 1
                /\ movies' = movies
                /\ Finish(p, r, [status |-> 200, error |-> "none",
                                 movieId |-> r.movie.row.id, watchId |-> watch.id,
                                 enriched |-> r.movie.row.poster_url # NULL])
           ELSE /\ UNCHANGED <<watches, nextWatchId>>
                /\ movies' = IF r.created THEN movies \ {r.movie.row} ELSE movies
                /\ Finish(p, r, ErrorResp(500, error))
    /\ UNCHANGED <<nextMovieId, tmdbKey, backfill, received>>

\* createMovieWatch as an upsert on (movie_id, watched_at): the stored Watch
\* of the same movie at the same time is overwritten
InsertWatch_Upsert(p) ==
    /\ req[p].pc = "insert_watch"
    /\ LET r == req[p]
           same == {w \in watches : /\ w.movie_id = r.movie.row.id
                                    /\ w.watched_at = r.draft.watchedAt}
           id == IF same = {} THEN nextWatchId ELSE (CHOOSE w \in same : TRUE).id
           watch == NewWatchRow(id, r.movie.row.id, r.item, r.draft)
           error == WatchInsertError(movies, watch)
       IN  IF error = "none"
           THEN /\ watches' = {w \in watches : w.id # id} \cup {watch}
                /\ nextWatchId' = IF same = {} THEN nextWatchId + 1 ELSE nextWatchId
                /\ Finish(p, r, [status |-> 200, error |-> "none",
                                 movieId |-> r.movie.row.id, watchId |-> watch.id,
                                 enriched |-> r.movie.row.poster_url # NULL])
           ELSE /\ UNCHANGED <<watches, nextWatchId>>
                /\ Finish(p, r, ErrorResp(500, error))
    /\ UNCHANGED <<movies, nextMovieId, tmdbKey, backfill, received>>

\* createMovieWatch and the success response of handleEchoFeedWebhook
InsertWatch(p) ==
    /\ req[p].pc = "insert_watch"
    /\ LET r == req[p]
           watch == NewWatchRow(nextWatchId, r.movie.row.id, r.item, r.draft)
           error == WatchInsertError(movies, watch)
       IN  IF error = "none"
           THEN /\ watches' = watches \cup {watch}
                /\ nextWatchId' = nextWatchId + 1
                /\ Finish(p, r, [status |-> 200, error |-> "none",
                                 movieId |-> r.movie.row.id, watchId |-> watch.id,
                                 enriched |-> r.movie.row.poster_url # NULL])
           ELSE /\ UNCHANGED <<watches, nextWatchId>>
                /\ Finish(p, r, ErrorResp(500, error))
    /\ UNCHANGED <<movies, nextMovieId, tmdbKey, backfill, received>>

(***************************************************************************)
(* Administrative cleanup: handleCleanup.                                  *)
(***************************************************************************)
\* DELETE .../cleanup with a movieIds array, or without one (status 400)
Cleanup(p, limit, unknownIds) ==
    /\ req[p].pc \in {"idle", "done"}
    /\ received < limit
    /\ received' = received + 1
    /\ \E path \in CleanupPaths :
          /\ Route("DELETE", path) = "cleanup"
          /\ LET r == [IdleReq EXCEPT !.kind = "cleanup", !.method = "DELETE",
                          !.path = path,
                          !.start = [movies |-> movies, watches |-> watches]]
             IN  \/ \E ids \in SUBSET ({m.id : m \in movies} \cup unknownIds) :
                        /\ req' = [req EXCEPT ![p] =
                              [r EXCEPT !.pc = "delete_watches", !.movieIds = ids]]
                        /\ hist' = hist
                 \/ Finish(p, r, ErrorResp(400, "movieIds array is required"))
    /\ UNCHANGED <<movies, watches, nextMovieId, nextWatchId, tmdbKey, backfill>>

\* an id no Movie has
UnknownMovieId == 9

ReceiveCleanup(p) == Cleanup(p, MaxRequests, {UnknownMovieId})

ReceiveCleanupConc(p) == Cleanup(p, MaxConcRequests, {})

ReceiveCleanupAdmin(p) == Cleanup(p, MaxAdminRequests, {UnknownMovieId})

\* the data of .delete() with no .select() chained to it: the client asks
\* the store for a minimal return, and no deleted row comes back
DeleteData(removed) == JsonNull

\* data?.length || 0
LengthOrZero(data) == IF data.null THEN 0 ELSE Cardinality(data.rows)

\* the delete of the watch records without its .in('movie_id', movieIds)
DeleteWatches_Unfiltered(p) ==
    /\ req[p].pc = "delete_watches"
    /\ watches' = {}
    /\ req' = [req EXCEPT ![p].pc = "delete_movies",
                          ![p].reads.deletedWatches = DeleteData(watches)]
    /\ UNCHANGED <<movies, nextMovieId, nextWatchId, tmdbKey, backfill, hist, received>>

\* .from('movie_watches').delete().in('movie_id', movieIds)
DeleteWatches(p) ==
    /\ req[p].pc = "delete_watches"
    /\ watches' = {w \in watches : w.movie_id \notin req[p].movieIds}
    /\ req' = [req EXCEPT ![p].pc = "delete_movies",
                          ![p].reads.deletedWatches =
                              DeleteData({w \in watches : w.movie_id \in req[p].movieIds})]
    /\ UNCHANGED <<movies, nextMovieId, nextWatchId, tmdbKey, backfill, hist, received>>

\* DELETE FROM movies WHERE id IN ids, with ON DELETE CASCADE on movie_watches
DeleteMovieRows(ids) ==
    [movies |-> {m \in movies : m.id \notin ids},
     watches |-> {w \in watches : w.movie_id \notin ids}]

\* .from('movies').delete().in('id', movieIds) and the response
DeleteMovies(p) ==
    /\ req[p].pc = "delete_movies"
    /\ movies' = DeleteMovieRows(req[p].movieIds).movies
    /\ watches' = DeleteMovieRows(req[p].movieIds).watches
    /\ LET deletedMovies == DeleteData({m \in movies : m.id \in req[p].movieIds})
           body == [NoBody EXCEPT
                      !.handler = "cleanup",
                      !.deleted = [watches |-> LengthOrZero(req[p].reads.deletedWatches),
                                   movies |-> LengthOrZero(deletedMovies)]]
       IN  Finish(p, [req[p] EXCEPT !.body = body], [NoResp EXCEPT !.status = 200])
    /\ UNCHANGED <<nextMovieId, nextWatchId, tmdbKey, backfill, received>>

(***************************************************************************)
(* Read endpoints: getMovieById, getMovies, getWatches, getMovieStats and  *)
(* the default response.  Movie ids are handed out in increasing order, so *)
(* "created_at descending" is "id descending".                             *)
(***************************************************************************)
\* position of a timestamp in time
TimeRank(t) == IF t = PubDate THEN 1 ELSE 0

\* the orders in which a query can return a set of rows
Orderings(rows) ==
    {s \in [1..Cardinality(rows) -> rows] :
        \A i, j \in DOMAIN s : i # j => s[i] # s[j]}

\* .limit(n)
Take(s, n) == SubSeq(s, 1, IF n < Len(s) THEN n ELSE Len(s))

\* parseInt(url.searchParams.get('limit') || default)
LimitOf(r, default) == IF r.limit = NoInt THEN default ELSE r.limit

MovieKey(m) == m.id
WatchKey(w) == TimeRank(w.watched_at)

\* .order('created_at', { ascending: false })
ByCreatedAtDesc(rows) ==
    {s \in Orderings(rows) :
        \A i, j \in DOMAIN s : i < j => MovieKey(s[i]) >= MovieKey(s[j])}

\* .order('watched_at', { ascending: false })
ByWatchedAtDesc(rows) ==
    {s \in Orderings(rows) :
        \A i, j \in DOMAIN s : i < j => WatchKey(s[i]) >= WatchKey(s[j])}

\* a GET request for one of the given pathnames arrives and is routed
Get(p, paths, most) ==
    /\ req[p].pc \in {"idle", "done"}
    /\ received < most
    /\ received' = received + 1
    /\ \E path \in paths, limit \in {NoInt, 1}, posters \in BOOLEAN :
          LET route == Route("GET", path)
              r == [IdleReq EXCEPT
                      !.kind = "get", !.method = "GET", !.path = path,
                      !.limit = IF route \in {"movies", "watches"} THEN limit ELSE NoInt,
                      !.posters = IF route = "movies" THEN posters ELSE FALSE,
                      !.start = [movies |-> movies, watches |-> watches]]
          IN  IF route = "default"
              THEN Finish(p, [r EXCEPT !.body = [NoBody EXCEPT !.handler = "default"]],
                          [NoResp EXCEPT !.status = 200])
              ELSE /\ req' = [req EXCEPT ![p] =
                         [r EXCEPT !.pc =
                             CASE route = "movie_by_id" -> "get_movie_by_id"
                               [] route = "movies" -> "get_movies"
                               [] route = "watches" -> "get_watches"
                               [] route = "stats" -> "stats_movies"]]
                   /\ hist' = hist
    /\ UNCHANGED <<movies, watches, nextMovieId, nextWatchId, tmdbKey, backfill>>

ReceiveGet(p) == Get(p, GetPaths, MaxRequests)

\* a GET request for the statistics
ReceiveGetStats(p) == Get(p, StatsPaths, MaxStatsRequests)

\* a movie with its nested watch history
WithWatches(m) == [row |-> m, movie_watches |-> {w \in watches : w.movie_id = m.id}]

\* a watch with its parent movie
WithMovie(w) == [row |-> w, movies |-> MaybeSingle({m \in movies : m.id = w.movie_id})]

\* getMovieById(path.split('/')[2])
GetMovieById(p) ==
    /\ req[p].pc = "get_movie_by_id"
    /\ LET r == req[p]
           id == UuidOf(MovieIdSegment(r.path))
           matching == {m \in movies : m.id = id}
       IN  IF id = NoInt
           THEN Finish(p, r, ErrorResp(500, "invalid input syntax for type uuid"))
           ELSE IF matching = {}
           THEN Finish(p, r, ErrorResp(404, "Movie not found"))
           ELSE Finish(p, [r EXCEPT !.body =
                              [NoBody EXCEPT
                                 !.handler = "movie_by_id",
                                 !.movie = [null |-> FALSE,
                                            row |-> WithWatches(CHOOSE m \in matching : TRUE)]]],
                       [NoResp EXCEPT !.status = 200])
    /\ UNCHANGED <<movies, watches, nextMovieId, nextWatchId, tmdbKey, backfill, received>>

\* getMovies: newest first, limit (50 by default), posters=true
GetMovies(p) ==
    /\ req[p].pc = "get_movies"
    /\ LET r == req[p]
           rows == IF r.posters THEN {m \in movies : m.poster_url # NULL} ELSE movies
       IN  \E s \in ByCreatedAtDesc(rows) :
              LET data == Take(s, LimitOf(r, 50))
              IN  Finish(p, [r EXCEPT !.body =
                                [NoBody EXCEPT
                                   !.handler = "movies",
                                   !.count = Len(data),
                                   !.movies = [i \in DOMAIN data |-> WithWatches(data[i])]]],
                         [NoResp EXCEPT !.status = 200])
    /\ UNCHANGED <<movies, watches, nextMovieId, nextWatchId, tmdbKey, backfill, received>>

\* getWatches: newest first by watched_at, limit (20 by default)
GetWatches(p) ==
    /\ req[p].pc = "get_watches"
    /\ LET r == req[p]
       IN  \E s \in ByWatchedAtDesc(watches) :
              LET data == Take(s, LimitOf(r, 20))
              IN  Finish(p, [r EXCEPT !.body =
                                [NoBody EXCEPT
                                   !.handler = "watches",
                                   !.count = Len(data),
                                   !.watches = [i \in DOMAIN data |-> WithMovie(data[i])]]],
                         [NoResp EXCEPT !.status = 200])
    /\ UNCHANGED <<movies, watches, nextMovieId, nextWatchId, tmdbKey, backfill, received>>

\* round(num / den) in exact arithmetic, halves up, for num >= 0 and den > 0
RoundedRatio(num, den) == (2 * num + den) \div (2 * den)

\* JavaScript numbers are IEEE 754 binary64 values.  A positive value is
\* [m, e], standing for m / 2^e with a significand m of 53 bits; the
\* significand is a natural number written in NumLimbs digits of base
\* Base, least significant first, so that no intermediate result exceeds
\* the integers of the checker.
Base == 32768
NumLimbs == 5

\* 2^j for j < 15
Pow2(j) ==
    <<1, 2, 4, 8, 16, 32, 64, 128, 256, 512, 1024, 2048, 4096, 8192,
      16384>>[j + 1]

BigOf(k) == <<k, 0, 0, 0, 0>>
BigToInt(x) == x[1] + Base * x[2]
BigIsZero(x) == \A i \in 1..NumLimbs : x[i] = 0
BigOdd(x) == x[1] % 2 = 1

\* x * k + carry for small k and carry
MulAdd(x, k, carry) ==
    LET v1 == x[1] * k + carry
        v2 == x[2] * k + v1 \div Base
        v3 == x[3] * k + v2 \div Base
        v4 == x[4] * k + v3 \div Base
        v5 == x[5] * k + v4 \div Base
    IN  <<v1 % Base, v2 % Base, v3 % Base, v4 % Base, v5 % Base>>

BigMul(x, k) == MulAdd(x, k, 0)
BigAdd(x, k) == MulAdd(x, 1, k)

\* quotient and remainder of x by a small k
BigDiv(x, k) ==
    LET v5 == x[5]
        v4 == (v5 % k) * Base + x[4]
        v3 == (v4 % k) * Base + x[3]
        v2 == (v3 % k) * Base + x[2]
        v1 == (v2 % k) * Base + x[1]
    IN  [q |-> <<v1 \div k, v2 \div k, v3 \div k, v4 \div k, v5 \div k>>,
         r |-> v1 % k]

\* x * Base^a and x / Base^a (rounded down)
LimbsUp(x, a) == [i \in 1..NumLimbs |-> IF i > a THEN x[i - a] ELSE 0]
LimbsDown(x, a) ==
    [i \in 1..NumLimbs |-> IF i + a <= NumLimbs THEN x[i + a] ELSE 0]

\* x * 2^j and x / 2^j (rounded down)
BigMulPow2(x, j) == LimbsUp(BigMul(x, Pow2(j % 15)), j \div 15)
BigDivPow2(x, j) == BigDiv(LimbsDown(x, j \div 15), Pow2(j % 15)).q

\* x / k rounded to the nearest natural number, ties to even: the rounding
\* of every binary64 operation
RoundedQuotient(x, k) ==
    LET d == BigDiv(x, k)
    IN  IF 2 * d.r > k \/ (2 * d.r = k /\ BigOdd(d.q)) THEN BigAdd(d.q, 1)
        ELSE d.q

\* the k with den <= num * 2^k < 2 * den, for 0 < num < den
ScaleUp(num, den) ==
    CHOOSE k \in 1..14 : num * Pow2(k) >= den /\ num * Pow2(k - 1) < den

\* the j with den * 2^j <= num < 2 * den * 2^j, for 0 < den <= num
ScaleDown(num, den) ==
    CHOOSE j \in 0..13 : den * Pow2(j) <= num /\ num < den * Pow2(j + 1)

\* num / den for 0 < num and 0 < den
FloatDiv(num, den) ==
    LET e == IF num < den THEN 52 + ScaleUp(num, den)
             ELSE 52 - ScaleDown(num, den)
    IN  [m |-> RoundedQuotient(BigMulPow2(BigOf(num), e), den), e |-> e]

\* the bits x has beyond 53
ExcessBits(x) == CHOOSE s \in 0..14 :
    /\ BigIsZero(BigDivPow2(x, 53 + s))
    /\ s > 0 => ~BigIsZero(BigDivPow2(x, 52 + s))

\* f * c for a small natural number c
FloatTimes(f, c) ==
    LET product == BigMul(f.m, c)
        s == ExcessBits(product)
    IN  [m |-> RoundedQuotient(product, Pow2(s)), e |-> f.e - s]

\* Math.round(f): the nearest integer, halves up
MathRound(f) == (BigToInt(BigDivPow2(f.m, f.e - 1)) + 1) \div 2

\* Math.round((num / den) * c) for num >= 0 and den > 0
RoundedScaled(num, den, c) ==
    IF num = 0 THEN 0 ELSE MathRound(FloatTimes(FloatDiv(num, den), c))

RECURSIVE SumOfRatings(_)
\* avgRating.reduce((sum, w) => sum + w.personal_rating, 0)
SumOfRatings(rows) ==
    IF rows = {} THEN 0
    ELSE LET w == CHOOSE x \in rows : TRUE
         IN  w.personal_rating + SumOfRatings(rows \ {w})

\* the body getMovieStats builds from what its four queries returned
StatsBody(movieCount, watchCount, moviesWithPosters, avgRating) ==
    [total_movies |-> movieCount,
     total_watches |-> watchCount,
     movies_with_posters |-> moviesWithPosters,
     poster_coverage |-> IF movieCount > 0
                         THEN RoundedScaled(moviesWithPosters, movieCount, 100)
                         ELSE 0,
     average_rating_tenths |-> IF Cardinality(avgRating) > 0
                               THEN RoundedScaled(SumOfRatings(avgRating),
                                                  Cardinality(avgRating), 10)
                               ELSE 0]

\* .from('movies').select('id', { count: 'exact' })
StatsMovies(p) ==
    /\ req[p].pc = "stats_movies"
    /\ req' = [req EXCEPT ![p].pc = "stats_watches",
                          ![p].reads.movieCount = Cardinality(movies)]
    /\ UNCHANGED <<movies, watches, nextMovieId, nextWatchId, tmdbKey, backfill, hist,
                   received>>

\* .from('movie_watches').select('id', { count: 'exact' })
StatsWatches(p) ==
    /\ req[p].pc = "stats_watches"
    /\ req' = [req EXCEPT ![p].pc = "stats_posters",
                          ![p].reads.watchCount = Cardinality(watches)]
    /\ UNCHANGED <<movies, watches, nextMovieId, nextWatchId, tmdbKey, backfill, hist,
                   received>>

\* .from('movies').select('id', ...).not('poster_url', 'is', null)
StatsPosters(p) ==
    /\ req[p].pc = "stats_posters"
    /\ req' = [req EXCEPT ![p].pc = "stats_ratings",
                          ![p].reads.moviesWithPosters =
                              Cardinality({m \in movies : m.poster_url # NULL})]
    /\ UNCHANGED <<movies, watches, nextMovieId, nextWatchId, tmdbKey, backfill, hist,
                   received>>

\* .from('movie_watches').select('personal_rating').not(..., 'is', null) and
\* the response
StatsRatings(p) ==
    /\ req[p].pc = "stats_ratings"
    /\ LET r == req[p]
           avgRating == {w \in watches : w.personal_rating # NoInt}
           stats == StatsBody(r.reads.movieCount, r.reads.watchCount,
                              r.reads.moviesWithPosters, avgRating)
       IN  Finish(p, [r EXCEPT !.body = [NoBody EXCEPT !.handler = "stats",
                                                       !.stats = stats]],
                  [NoResp EXCEPT !.status = 200])
    /\ UNCHANGED <<movies, watches, nextMovieId, nextWatchId, tmdbKey, backfill, received>>

\* the awaits of the read handlers
ReadStep(p) ==
    \/ GetMovieById(p)
    \/ GetMovies(p)
    \/ GetWatches(p)
    \/ StatsMovies(p)
    \/ StatsWatches(p)
    \/ StatsPosters(p)
    \/ StatsRatings(p)

(***************************************************************************)
(* Specifications.  Spec: requests are handled one after another (one      *)
(* invocation at a time).  ConcSpec: two invocations interleave at their   *)
(* awaits.                                                                 *)
(***************************************************************************)
\* the awaits of a webhook delivery
WebhookStep(p) ==
    \/ LookupLetterboxd(p)
    \/ LookupTitleYear(p)
    \/ EnrichExisting(p)
    \/ UpdateExisting(p)
    \/ EnrichNew(p)
    \/ InsertMovie(p)
    \/ InsertWatch(p)

\* the awaits of a cleanup
CleanupStep(p) ==
    \/ DeleteWatches(p)
    \/ DeleteMovies(p)

Step(p) ==
    \/ WebhookStep(p)
    \/ CleanupStep(p)

Next ==
    \/ ReceiveWebhook(1)
    \/ ReceiveCleanup(1)
    \/ ReceiveGet(1)
    \/ Step(1)
    \/ ReadStep(1)

Spec == Init /\ [][Next]_vars

ConcNext ==
    \E p \in Procs :
        \/ ReceiveWebhookConc(p)
        \/ ReceiveCleanupConc(p)
        \/ Step(p)

ConcSpec == Init /\ [][ConcNext]_vars

\* two handler invocations that interleave, deliveries only
IndepNext ==
    \E p \in Procs :
        \/ ReceiveWebhookIndep(p)
        \/ WebhookStep(p)

IndepSpec == Init /\ [][IndepNext]_vars

\* the Source Extractor alone: a feed item is given, extractMovieData runs
ExtractInit ==
    /\ movies = {}
    /\ watches = {}
    /\ nextMovieId = 1
    /\ nextWatchId = 1
    /\ tmdbKey = FALSE
    /\ hist = <<>>
    /\ received = 0
    /\ backfill = NoBackfill
    /\ \E item \in ExtractItems :
          req = [p \in Procs |-> IF p = 1 THEN [IdleReq EXCEPT !.item = item]
                                 ELSE IdleReq]

\* const movieData = await extractMovieData(feedItem)
Extract(p) ==
    /\ req[p].pc = "idle"
    /\ LET extracted == ExtractMovieData(req[p].item)
       IN  req' = [req EXCEPT
                     ![p].pc = "done",
                     ![p].kind = "extract",
                     ![p].draft = extracted.data,
                     ![p].resp = IF extracted.threw THEN ErrorResp(500, "type_error")
                                 ELSE NoResp]
    /\ UNCHANGED <<movies, watches, nextMovieId, nextWatchId, tmdbKey, backfill, hist,
                   received>>

ExtractNext == Extract(1)

ExtractSpec == ExtractInit /\ [][ExtractNext]_vars

\* a Movie as the store holds it, with a poster and the metadata-service id
\* it came with, or with neither
StoredMovie(id, withPoster) ==
    NewMovieRow(id,
                [title |-> TitleB, year |-> NoInt, letterboxd_id |-> NULL,
                 trakt_id |-> NULL],
                IF withPoster
                THEN [poster_url |-> "https://image.tmdb.org/t/p/w500/other.jpg",
                      tmdb_id |-> ToString(id)]
                ELSE EmptyMap)

\* a store of n Movies of which the first posters have a poster
StatsInit ==
    /\ \E n \in 0..MaxMovieCount :
          /\ \E posters \in 0..n :
                movies = {StoredMovie(i, i <= posters) : i \in 1..n}
          /\ nextMovieId = n + 1
    /\ watches = {}
    /\ nextWatchId = 1
    /\ tmdbKey = TRUE
    /\ req = [p \in Procs |-> IdleReq]
    /\ hist = <<>>
    /\ received = 0
    /\ backfill = NoBackfill

\* the statistics are asked of a store that does not change
StatsNext ==
    \/ ReceiveGetStats(1)
    \/ StatsMovies(1)
    \/ StatsWatches(1)
    \/ StatsPosters(1)
    \/ StatsRatings(1)

StatsSpec == StatsInit /\ [][StatsNext]_vars

(***************************************************************************)
(* The Trakt backfill script, MovieBackfill in movie-backfill.js.  Trakt   *)
(* and the movie API are its environment: a request to either succeeds or  *)
(* fails.  A key of processedMovies is the sequence of the parts the       *)
(* template literal joins.                                                 *)
(***************************************************************************)
\* Trakt ids, as the text a template literal makes of them
TraktMovieIds == {"1", "2"}
WatchedAts == {"2024-09-14T20:00:00Z", PubDate}

\* `${movie.ids.trakt}-${historyEntry.watched_at}`
WatchKeyOf(entry) == <<entry.trakt, "-", entry.watched_at>>

\* `movie-${movie.ids.trakt}`
MovieKeyOf(movie) == <<"movie", "-", movie.trakt>>

RECURSIVE SeqsUpTo(_, _)
\* the sequences of at most n elements of S
SeqsUpTo(S, n) ==
    IF n = 0 THEN {<<>>}
    ELSE LET shorter == SeqsUpTo(S, n - 1)
         IN  shorter \cup {Append(q, x) : q \in shorter, x \in S}

\* /users/{name}/history/movies: watch events, a movie as often as watched
TraktHistories ==
    SeqsUpTo([trakt : TraktMovieIds, watched_at : WatchedAts], MaxHistoryEntries)

\* /users/{name}/watched/movies: every watched movie once
TraktWatchedLists ==
    {w \in SeqsUpTo([trakt : TraktMovieIds], MaxWatchedMovies) :
        \A i, j \in DOMAIN w : i # j => w[i] # w[j]}

\* node movie-backfill.js <mode>, at the start of run()
BackfillInit ==
    /\ movies = {}
    /\ watches = {}
    /\ nextMovieId = 1
    /\ nextWatchId = 1
    /\ tmdbKey = TRUE
    /\ req = [p \in Procs |-> IdleReq]
    /\ hist = <<>>
    /\ received = 0
    /\ \E mode \in {"history", "watched", "both"},
          history \in TraktHistories, watched \in TraktWatchedLists :
          backfill = [NoBackfill EXCEPT !.pc = "connect", !.mode = mode,
                                        !.history = history, !.watched = watched]

ApiUnchanged ==
    UNCHANGED <<movies, watches, nextMovieId, nextWatchId, tmdbKey, req, hist,
                received>>

\* run(): the two connection tests; a failure ends the process
BackfillConnect ==
    /\ backfill.pc = "connect"
    /\ \E ok \in BOOLEAN :
          backfill' = [backfill EXCEPT !.pc =
              IF ~ok THEN "exit"
              ELSE IF backfill.mode = "watched" THEN "watched_fetch"
              ELSE "history_fetch"]
    /\ ApiUnchanged

\* processMovieHistory: getMovieRatings (a failure gives an empty map) and
\* getMovieHistory (a failure ends the process)
FetchHistory ==
    /\ backfill.pc = "history_fetch"
    /\ \E ok \in BOOLEAN :
          backfill' = [backfill EXCEPT !.pc = IF ok THEN "history_loop" ELSE "exit",
                                       !.i = 1]
    /\ ApiUnchanged

\* one iteration of a loop: skip a key already processed, else send to the
\* movie API and count the outcome
Process(pass, trakt, key) ==
    IF key \in backfill.processedMovies
    THEN backfill' = [backfill EXCEPT !.i = @ + 1, !.stats.skipped = @ + 1]
    ELSE \E ok \in BOOLEAN :
            backfill' =
                IF ok
                THEN [backfill EXCEPT
                        !.i = @ + 1,
                        !.stats.moviesProcessed = @ + 1,
                        !.stats.watchesAdded = @ + 1,
                        !.processedMovies = @ \cup {key},
                        !.sent = Append(@, [pass |-> pass, trakt |-> trakt,
                                            ok |-> TRUE])]
                ELSE [backfill EXCEPT
                        !.i = @ + 1,
                        !.stats.errors = @ + 1,
                        !.sent = Append(@, [pass |-> pass, trakt |-> trakt,
                                            ok |-> FALSE])]

\* processMovieHistory, lines 207-247
ProcessHistoryEntry ==
    /\ backfill.pc = "history_loop"
    /\ backfill.i <= Len(backfill.history)
    /\ LET historyEntry == backfill.history[backfill.i]
       IN  Process("history", historyEntry.trakt, WatchKeyOf(historyEntry))
    /\ ApiUnchanged

\* the end of the history pass; run() goes on in mode 'both'
HistoryCompleted ==
    /\ backfill.pc = "history_loop"
    /\ backfill.i > Len(backfill.history)
    /\ backfill' = [backfill EXCEPT !.pc =
          IF backfill.mode = "both" THEN "watched_fetch" ELSE "done"]
    /\ ApiUnchanged

\* processWatchedMovies: Promise.all of getMovieRatings and getWatchedMovies
FetchWatched ==
    /\ backfill.pc = "watched_fetch"
    /\ \E ok \in BOOLEAN :
          backfill' = [backfill EXCEPT !.pc = IF ok THEN "watched_loop" ELSE "exit",
                                       !.i = 1]
    /\ ApiUnchanged

\* processWatchedMovies, lines 269-318
ProcessWatchedMovie ==
    /\ backfill.pc = "watched_loop"
    /\ backfill.i <= Len(backfill.watched)
    /\ LET movie == backfill.watched[backfill.i]
       IN  Process("watched", movie.trakt, MovieKeyOf(movie))
    /\ ApiUnchanged

WatchedCompleted ==
    /\ backfill.pc = "watched_loop"
    /\ backfill.i > Len(backfill.watched)
    /\ backfill' = [backfill EXCEPT !.pc = "done"]
    /\ ApiUnchanged

BackfillNext ==
    \/ BackfillConnect
    \/ FetchHistory
    \/ ProcessHistoryEntry
    \/ HistoryCompleted
    \/ FetchWatched
    \/ ProcessWatchedMovie
    \/ WatchedCompleted

BackfillSpec == BackfillInit /\ [][BackfillNext]_vars

\* the store that deliveries of ItemGenericA leave behind: one Movie with
\* its Watch after a single delivery, two Movies with the same title and
\* year, each with its Watch, after two deliveries that raced (ConcSpec)
AfterRaceInit ==
    /\ \E n \in 1..2 :
          LET movieData == ExtractMovieData(ItemGenericA).data
          IN  /\ movies = {NewMovieRow(i, BaseMovieData(movieData), EmptyMap) :
                              i \in 1..n}
              /\ watches = {NewWatchRow(i, i, ItemGenericA, movieData) : i \in 1..n}
              /\ nextMovieId = n + 1
              /\ nextWatchId = n + 1
    /\ tmdbKey \in BOOLEAN
    /\ req = [p \in Procs |-> IdleReq]
    /\ hist = <<>>
    /\ received = 0
    /\ backfill = NoBackfill

\* deliveries handled one after another
AfterRaceNext ==
    \/ ReceiveWebhookAfterRace(1)
    \/ WebhookStep(1)

AfterRaceSpec == AfterRaceInit /\ [][AfterRaceNext]_vars

\* requests handled one after another, long enough to fill the store with
\* several Movies and then clean a part of it
AdminNext ==
    \/ ReceiveWebhookAdmin(1)
    \/ ReceiveCleanupAdmin(1)
    \/ Step(1)

AdminSpec == Init /\ [][AdminNext]_vars

\* deliveries of feed items of every shape, handled one after another
SourceNext ==
    \/ ReceiveWebhookSource(1)
    \/ WebhookStep(1)

SourceSpec == Init /\ [][SourceNext]_vars


(***************************************************************************)
(* Properties.  Under Spec request 1 is the only handler, so a state with  *)
(* req[1].pc = "done" is the state a request leaves behind, and its        *)
(* summary is the last entry of hist.                                      *)
(***************************************************************************)
JustDone == req[1].pc = "done" /\ hist # <<>>
Last == hist[Len(hist)]

NoCleanupBetween(i, j) ==
    \A k \in (i + 1)..(j - 1) : hist[k].kind # "cleanup"

\* both drafts carry the same Letterboxd slug, or the same Trakt id
SameExternalId(d1, d2) ==
    \/ /\ d1.externalIds.letterboxd_id # NULL
       /\ d1.externalIds.letterboxd_id = d2.externalIds.letterboxd_id
    \/ /\ d1.externalIds.trakt_id # NULL
       /\ d1.externalIds.trakt_id = d2.externalIds.trakt_id

MoviesWithExternalIdOf(d) ==
    {m \in movies :
        \/ /\ d.externalIds.letterboxd_id # NULL
           /\ m.letterboxd_id = d.externalIds.letterboxd_id
        \/ /\ d.externalIds.trakt_id # NULL
           /\ m.trakt_id = d.externalIds.trakt_id}

\* C1: of two sequential deliveries whose drafts carry the same external
\* id (Letterboxd slug or Trakt id), with no cleanup in between, the second
\* resolves without failing to the Movie the first resolved to, and exactly
\* one Movie row holds that external id.
C1_SameExternalIdSameMovie ==
    JustDone =>
        \A i \in 1..(Len(hist) - 1) :
            ( /\ hist[i].kind = "webhook"
              /\ Last.kind = "webhook"
              /\ NoCleanupBetween(i, Len(hist))
              /\ ~hist[i].movie.null
              /\ SameExternalId(hist[i].draft, Last.draft) )
            => /\ ~Last.movie.null
               /\ Last.movie.row.id = hist[i].movie.row.id
               /\ Cardinality(MoviesWithExternalIdOf(Last.draft)) = 1

NoExternalId(d) ==
    d.externalIds.letterboxd_id = NULL /\ d.externalIds.trakt_id = NULL

\* C2: of two sequential deliveries whose drafts carry no external id but
\* the same title and the same year, with no cleanup in between, both
\* resolve to the same Movie id and one Movie row has that (title, year).
C2_SameTitleYearSameMovie ==
    JustDone =>
        \A i \in 1..(Len(hist) - 1) :
            ( /\ hist[i].kind = "webhook"
              /\ Last.kind = "webhook"
              /\ NoCleanupBetween(i, Len(hist))
              /\ NoExternalId(hist[i].draft)
              /\ NoExternalId(Last.draft)
              /\ hist[i].draft.title # NoStr
              /\ hist[i].draft.year # NoInt
              /\ hist[i].draft.title = Last.draft.title
              /\ hist[i].draft.year = Last.draft.year )
            => /\ ~hist[i].movie.null
               /\ ~Last.movie.null
               /\ Last.movie.row.id = hist[i].movie.row.id
               /\ Cardinality({m \in movies : /\ m.title = Last.draft.title
                                              /\ m.year = Last.draft.year}) = 1

WatchOf(entry) == {w \in watches : w.id = entry.resp.watchId}

Succeeded(entry) == entry.kind = "webhook" /\ entry.resp.status = 200

\* a successful delivery appended exactly one Watch, linked to the Movie
\* of its response
AppendedOneWatch ==
    (JustDone /\ Succeeded(Last)) =>
        \E w \in watches :
            /\ w \notin req[1].start.watches
            /\ watches = req[1].start.watches \cup {w}
            /\ w.id = Last.resp.watchId
            /\ w.movie_id = Last.resp.movieId
            /\ ~Last.movie.null
            /\ Last.movie.row.id = Last.resp.movieId

\* the earlier successful deliveries of the item of the last delivery, with
\* no cleanup since
EarlierDeliveriesOfLastItem ==
    {i \in 1..(Len(hist) - 1) : /\ Succeeded(hist[i])
                                /\ hist[i].item = Last.item
                                /\ NoCleanupBetween(i, Len(hist))}

Findable(d, rows) ==
    \/ d.externalIds.letterboxd_id # NULL
    \/ /\ Truthy(d.title)
       /\ YearTruthy(d.year)
       /\ Cardinality({m \in rows : m.title = d.title /\ m.year = d.year}) <= 1

C5_WatchHasItsMovie ==
    \A w \in watches : Cardinality({m \in movies : m.id = w.movie_id}) = 1

\* a delivery inserted its Watch between the two deletes of a cleanup of the
\* Watch's Movie: the Watch is stored, and the cleanup is about to delete
\* the Movie it references
C5_Witness ==
    \E p \in Procs :
        /\ req[p].pc = "delete_movies"
        /\ \E w \in watches : w.movie_id \in req[p].movieIds

MoviesAfterRejectedWatch(r) ==
    IF r.created THEN r.start.movies \cup {r.movie.row} ELSE r.start.movies

\* C8 as stated: when the store rejects the Watch insert the delivery ends
\* with an error, stores no Watch, keeps a Movie it has just created
\* without any Watch, and leaves the store otherwise unchanged.
C8_Original_OnlyNewMovieRemains ==
    (JustDone /\ Last.kind = "webhook" /\ Last.resp.error = "check") =>
        /\ Last.resp.status >= 400
        /\ watches = req[1].start.watches
        /\ movies = MoviesAfterRejectedWatch(req[1])
        /\ req[1].created =>
              /\ req[1].movie.row \notin req[1].start.movies
              /\ ~\E w \in watches : w.movie_id = req[1].movie.row.id

\* C8 (amended): as C8, except that an existing Movie the delivery
\* resolved to may have been updated in place with the enrichment fields
\* (its id, title, year, letterboxd id and trakt id unchanged).
C8_RejectedWatchKeepsMovie ==
    (JustDone /\ Last.kind = "webhook" /\ Last.resp.error = "check") =>
        /\ Last.resp.status >= 400
        /\ watches = req[1].start.watches
        /\ req[1].created =>
              /\ movies = req[1].start.movies \cup {req[1].movie.row}
              /\ req[1].movie.row \notin req[1].start.movies
              /\ ~\E w \in watches : w.movie_id = req[1].movie.row.id
        /\ ~req[1].created =>
              \/ movies = req[1].start.movies
              \/ \E old \in req[1].start.movies :
                    /\ old.id = req[1].movie.row.id
                    /\ old.poster_url = NULL
                    /\ movies = (req[1].start.movies \ {old}) \cup {req[1].movie.row}
                    /\ req[1].movie.row.title = old.title
                    /\ req[1].movie.row.year = old.year
                    /\ req[1].movie.row.letterboxd_id = old.letterboxd_id
                    /\ req[1].movie.row.trakt_id = old.trakt_id

\* the rejected delivery created its Movie, which is stored without a Watch
C8_Witness ==
    /\ JustDone
    /\ Last.resp.error = "check"
    /\ req[1].created
    /\ req[1].movie.row \in movies
    /\ ~\E w \in watches : w.movie_id = req[1].movie.row.id

\* errors by which the store refuses a row
StoreRejections == {"not_null", "unique", "check", "foreign_key"}

Answered == req[1]

\* C11: a GET request to /movies/watches is answered by the recent-watches
\* handler and a GET request to /movies/stats by the stats handler, never
\* by the movie-list handler.
C11_ReadEndpointsReachOwnHandler ==
    ( /\ JustDone
      /\ Answered.method = "GET" )
    => /\ Answered.path = <<"movies", "watches">>
             => Answered.body.handler = "watches"
       /\ Answered.path = <<"movies", "stats">>
             => Answered.body.handler = "stats"

\* C12: a GET request to /movies/movie/{id} returns the Movie whose id is
\* {id} with its watch history when it exists, and status 404 with
\* 'Movie not found' when no Movie has that id.
C12_DocumentedMovieLookup ==
    \A text \in {"1", "9"} :
        ( /\ JustDone
          /\ Answered.method = "GET"
          /\ Answered.path = <<"movies", "movie", text>> )
        => IF \E m \in movies : m.id = UuidOf(text)
           THEN /\ Answered.resp.status = 200
                /\ ~Answered.body.movie.null
                /\ Answered.body.movie.row.row.id = UuidOf(text)
                /\ Answered.body.movie.row.movie_watches =
                      {w \in watches : w.movie_id = UuidOf(text)}
           ELSE /\ Answered.resp.status = 404
                /\ Answered.resp.error = "Movie not found"

\* C14: the response of a successful cleanup reports the number of Watch
\* rows and the number of Movie rows the cleanup removed.
C14_CleanupCountsDeleted ==
    ( /\ JustDone
      /\ Answered.kind = "cleanup"
      /\ Answered.resp.status = 200 )
    => /\ Answered.body.deleted.watches =
             Cardinality(Answered.start.watches) - Cardinality(watches)
       /\ Answered.body.deleted.movies =
             Cardinality(Answered.start.movies) - Cardinality(movies)

\* C15: a POST request to a path containing /debug never creates or changes
\* a Movie or a Watch.
C15_DebugPostChangesNothing ==
    ( /\ JustDone
      /\ Answered.method = "POST"
      /\ PathIncludes(Answered.path, "debug") )
    => /\ movies = Answered.start.movies
       /\ watches = Answered.start.watches

SameTitleYear(rows, row) ==
    {m \in rows : m.title = row.title /\ m.year = row.year}

\* C16: two concurrent deliveries for the same not-yet-created movie can
\* leave two Movie rows with the same (title, year) (the state of
\* C16_Witness), and a delivery adds a row with a (title, year) that is
\* already stored only in such a race: one of the stored rows with that
\* (title, year) was inserted after the delivery had arrived, or the store
\* already held two or more of them when it arrived.
C16_DuplicateOnlyByRace ==
    [][ \A p \in Procs :
          ( /\ req[p].pc = "insert_movie"
            /\ ~req[p].created
            /\ req'[p].created )
          => LET row == req'[p].movie.row
                 stored == SameTitleYear(movies, row)
                 atArrival == SameTitleYear(req[p].start.movies, row)
             IN  ( /\ Truthy(row.title)
                   /\ YearTruthy(row.year)
                   /\ stored # {} )
                 => \/ \E m \in stored :
                          \A o \in req[p].start.movies : o.id # m.id
                    \/ Cardinality(atArrival) >= 2 ]_vars

\* both deliveries looked the movie up before either had inserted it, both
\* inserts succeeded and both answered with success: two Movie rows have the
\* same (title, year)
C16_Witness ==
    /\ \E m1, m2 \in movies :
          /\ m1.id # m2.id
          /\ m1.title = m2.title
          /\ m1.year = m2.year
          /\ YearTruthy(m1.year)
    /\ Len(hist) = 2
    /\ \A i \in 1..2 :
          /\ hist[i].kind = "webhook"
          /\ hist[i].created
          /\ hist[i].resp.status = 200
    /\ hist[1].movie.row.id # hist[2].movie.row.id

\* two deliveries of two different feed items have been received and
\* answered, and nothing else
TwoDistinctDeliveriesDone ==
    /\ received = 2
    /\ Len(hist) = 2
    /\ \A i \in 1..2 : hist[i].kind = "webhook"
    /\ hist[1].item # hist[2].item

\* the rows a delivery leaves when it is processed alone on a store that
\* knows nothing of its movie, the metadata service answering as it did
MovieAlone(entry) ==
    NewMovieRow(entry.resp.movieId, BaseMovieData(entry.draft), entry.tmdbData)

WatchAlone(entry) ==
    NewWatchRow(entry.resp.watchId, entry.resp.movieId, entry.item, entry.draft)

\* the metadata service gave both deliveries the same metadata id
SameMetadataId ==
    /\ Field(hist[1].tmdbData, "tmdb_id") # NULL
    /\ Field(hist[1].tmdbData, "tmdb_id") = Field(hist[2].tmdbData, "tmdb_id")

ResolvedToExisting ==
    /\ JustDone
    /\ Last.kind = "webhook"
    /\ ~Last.movie.null
    /\ ~Last.created

Extracted == req[1].pc = "done" /\ req[1].kind = "extract"

\* position k of a title holds a comma that follows at least one character
\* and is followed, after any blanks, by four digits
YearCommaAt(title, k) ==
    /\ k >= 2
    /\ k <= Len(title)
    /\ title[k] = ","
    /\ FourDigitsAt(title, SkipWs(title, k + 1))

\* the number the four digits after the comma at k denote
YearAfter(title, k) ==
    ParseInt(SubSeq(title, SkipWs(title, k + 1), SkipWs(title, k + 1) + 3))

StarPositions(content) == {i \in 1..Len(content) : content[i] = BlackStar}

\* the stars of a body form one run (or there is none)
OneStarRun(content) ==
    \A i, j \in StarPositions(content) :
        \A k \in i..j : k \in StarPositions(content)

\* C20: for every Letterboxd body containing a run of N stars, 0 <= N <= 5,
\* and otherwise only non-star filler, the extracted rating is exactly N.
C20_StarRunIsRating ==
    ( /\ Extracted
      /\ req[1].item.content # NoStr
      /\ OneStarRun(req[1].item.content)
      /\ Cardinality(StarPositions(req[1].item.content)) <= 5 )
    => req[1].draft.rating = Cardinality(StarPositions(req[1].item.content))

\* the draft of the delivery that request 1 has just completed or is running
HasDraft(r) == r.kind = "webhook" /\ r.draft.source # "unknown"

\* C21 as stated: the third rule of the classification looks at the
\* trakt_id field of the payload only, so an item with no platform link and
\* no trakt_id field is generic.
C21_Original_PayloadIdOnly ==
    HasDraft(req[1]) =>
        LET item == req[1].item
            source == req[1].draft.source
        IN  /\ source =
                  IF Truthy(item.link) /\ Includes(item.link, LetterboxdMarker)
                  THEN "letterboxd"
                  ELSE IF Truthy(item.link) /\ Includes(item.link, TraktMarker)
                  THEN "trakt"
                  ELSE IF item.trakt_id # NULL THEN "trakt"
                  ELSE "generic"
            /\ \A w \in watches : w.source \in {"letterboxd", "trakt", "generic"}

\* C21: the classification is first-match in the order Letterboxd link,
\* Trakt link, Trakt id (the trakt_id field of the payload, or else the
\* digits of a Movie/<digits>/ tag in the item's id), generic; every stored
\* Watch has a source tag in {letterboxd, trakt, generic}.
C21_FirstMatchClassification ==
    /\ HasDraft(req[1]) =>
          LET item == req[1].item
              source == req[1].draft.source
          IN  source =
                  IF Truthy(item.link) /\ Includes(item.link, LetterboxdMarker)
                  THEN "letterboxd"
                  ELSE IF Truthy(item.link) /\ Includes(item.link, TraktMarker)
                  THEN "trakt"
                  ELSE IF \/ item.trakt_id # NULL
                          \/ item.id # NoStr /\ TraktIdFromTag(item.id) # NULL
                  THEN "trakt"
                  ELSE "generic"
    /\ \A w \in watches : w.source \in {"letterboxd", "trakt", "generic"}

\* a Watch is stored for an item classified as trakt by its id tag alone
C21_Witness ==
    /\ req[1].pc = "done"
    /\ req[1].resp.status = 200
    /\ req[1].item.trakt_id = NULL
    /\ req[1].item.link = NoStr
    /\ req[1].item.id = TraktTag550
    /\ \E w \in watches : w.id = req[1].resp.watchId /\ w.source = "trakt"

\* C22: whenever the feed item has a trakt_id field, the draft's Trakt
\* external id equals it, whatever id the item's id tag (Movie/<digits>/) or
\* the /movies/ segment of its link would give.
C22_PayloadTraktIdWins ==
    ( /\ HasDraft(req[1])
      /\ req[1].item.trakt_id # NULL )
    => req[1].draft.externalIds.trakt_id = req[1].item.trakt_id

\* a delivery whose trakt_id field, id tag and link name three different
\* ids has stored a Movie under the id of the field
C22_Witness ==
    /\ req[1].pc = "done"
    /\ req[1].resp.status = 200
    /\ req[1].item.trakt_id = PayloadTraktId
    /\ TraktIdFromTag(req[1].item.id) \notin {NULL, PayloadTraktId}
    /\ TraktIdFromLink(req[1].item.link) \notin {NULL, PayloadTraktId}
    /\ \E m \in movies : m.id = req[1].resp.movieId /\ m.trakt_id = PayloadTraktId

\* request 1 has been answered by getMovieStats
StatsAnswered ==
    /\ req[1].pc = "done"
    /\ req[1].body.handler = "stats"

\* C23: with n Movies of which p have a poster, the stats response has
\* total_movies = n, movies_with_posters = p and poster_coverage =
\* round(100 * p / n), and poster_coverage = 0 when n = 0.
C23_PosterCoverage ==
    StatsAnswered =>
        LET n == Cardinality(movies)
            p == Cardinality({m \in movies : m.poster_url # NULL})
            stats == req[1].body.stats
        IN  /\ stats.total_movies = n
            /\ stats.movies_with_posters = p
            /\ stats.poster_coverage =
                  IF n = 0 THEN 0 ELSE RoundedRatio(100 * p, n)

\* the movies the history pass has processed: sent and accepted
ProcessedFromHistory ==
    {backfill.sent[k].trakt :
        k \in {x \in DOMAIN backfill.sent :
                  backfill.sent[x].pass = "history" /\ backfill.sent[x].ok}}

\* C24: in 'both' mode the watched pass skips every movie that was already
\* processed from history: such a movie is not sent to the movie API a
\* second time, and at the end it is counted in skipped.
C24_WatchedPassSkipsHistoryMovies ==
    backfill.mode = "both" =>
        /\ \A k \in DOMAIN backfill.sent :
              backfill.sent[k].pass = "watched"
              => backfill.sent[k].trakt \notin ProcessedFromHistory
        /\ backfill.pc = "done" =>
              backfill.stats.skipped >=
                  Cardinality({k \in DOMAIN backfill.watched :
                                  backfill.watched[k].trakt \in ProcessedFromHistory})

\* C25: a webhook delivery invokes the enrichment adapter at most once; an
\* invocation sends at most one search request and at most one details
\* request; for a new Movie (no stored Movie was found) the adapter is
\* invoked only when the draft has a title and a year; it is never invoked
\* when the metadata key is unset.
C25_NoRetry ==
    req[1].kind = "webhook" =>
        LET e == req[1].enrich
        IN  /\ e.invocations <= 1
            /\ e.searchCalls <= e.invocations
            /\ e.detailsCalls <= e.invocations
            /\ (e.invocations = 1 /\ req[1].existing.null)
                  => (Truthy(req[1].draft.title) /\ YearTruthy(req[1].draft.year))
            /\ ~tmdbKey => e.invocations = 0

\* a delivery has created a Movie after one invocation of the adapter that
\* sent one search and one details request
C25_Witness ==
    /\ req[1].pc = "done"
    /\ req[1].kind = "webhook"
    /\ req[1].created
    /\ req[1].enrich.invocations = 1
    /\ req[1].enrich.searchCalls = 1
    /\ req[1].enrich.detailsCalls = 1

MovieIdsOf(rows) == {m.id : m \in rows}

\* C26: no step of a request (webhook, GET, cleanup) changes a field of a
\* stored Watch; a Watch appears only by the insert of a webhook delivery
\* and disappears only by a cleanup; no request other than a cleanup
\* removes a Movie.
C26_WatchNeverMutated ==
    [][ /\ \A w \in watches : \A v \in watches' : v.id = w.id => v = w
        /\ watches' \ watches # {} =>
              /\ \E p \in Procs : /\ req[p].kind = "webhook"
                                   /\ req[p].pc = "insert_watch"
                                   /\ req'[p].pc = "done"
              /\ Cardinality(watches' \ watches) = 1
        /\ watches \ watches' # {} =>
              \E p \in Procs : req[p].kind = "cleanup" /\ req'[p] # req[p]
        /\ MovieIdsOf(movies) \ MovieIdsOf(movies') # {} =>
              \E p \in Procs : req[p].kind = "cleanup" /\ req'[p] # req[p]
      ]_vars

\* the Watch of a first delivery is still stored after a second delivery
\* has put another Watch on the same Movie
C26_Witness ==
    /\ Len(hist) = 2
    /\ hist[1].kind = "webhook" /\ hist[1].resp.status = 200
    /\ hist[2].kind = "webhook" /\ hist[2].resp.status = 200
    /\ hist[2].resp.movieId = hist[1].resp.movieId
    /\ hist[2].draft.rating # hist[1].draft.rating
    /\ \E w \in watches : /\ w.id = hist[1].resp.watchId
                          /\ w.personal_rating = hist[1].draft.rating

\* the Movies of a store with the title and year of a draft
WithTitleYear(rows, d) == {m \in rows : m.title = d.title /\ m.year = d.year}

\* C27: a delivery processed alone whose draft has a title and a non-zero
\* year and matches no Movie by Letterboxd id, arriving at a store that
\* holds one or more Movies with that title and year, resolves to one of
\* them, and the number of Movies with that title and year is unchanged.
C27_DuplicatesDoNotGrow ==
    ( /\ req[1].pc = "done"
      /\ req[1].kind = "webhook"
      /\ Truthy(req[1].draft.title)
      /\ YearTruthy(req[1].draft.year)
      /\ \A m \in req[1].start.movies :
            \/ req[1].draft.externalIds.letterboxd_id = NULL
            \/ m.letterboxd_id # req[1].draft.externalIds.letterboxd_id
      /\ WithTitleYear(req[1].start.movies, req[1].draft) # {} )
    => /\ req[1].resp.status = 200
       /\ req[1].resp.movieId \in
              MovieIdsOf(WithTitleYear(req[1].start.movies, req[1].draft))
       /\ Cardinality(WithTitleYear(movies, req[1].draft)) =
              Cardinality(WithTitleYear(req[1].start.movies, req[1].draft))

\* handler p has completed a delivery that carried the Letterboxd id and
\* arrived when no Movie held it
UnseenLetterboxdDelivery(p, id) ==
    /\ req[p].pc = "done"
    /\ req[p].kind = "webhook"
    /\ req[p].draft.externalIds.letterboxd_id = id
    /\ \A m \in req[p].start.movies : m.letterboxd_id # id

\* C28: when two deliveries carrying the same previously unseen Letterboxd
\* id run concurrently, both end with a success response and each has its
\* Watch recorded against one shared Movie.
C28_SameNewIdBothSucceed ==
    \A id \in {"a"} :
        (UnseenLetterboxdDelivery(1, id) /\ UnseenLetterboxdDelivery(2, id))
        => /\ req[1].resp.status = 200
           /\ req[2].resp.status = 200
           /\ req[1].resp.movieId = req[2].resp.movieId
           /\ \E w1, w2 \in watches :
                 /\ w1.id = req[1].resp.watchId
                 /\ w2.id = req[2].resp.watchId
                 /\ w1.id # w2.id
                 /\ w1.movie_id = req[1].resp.movieId
                 /\ w2.movie_id = req[1].resp.movieId

(***************************************************************************)
(* Statistics read while deliveries and cleanups are in flight: two        *)
(* invocations interleave at their awaits, getMovieStats among them.       *)
(***************************************************************************)
MaxSnapshotRequests == 2

SnapshotPayloads == {[wrapped |-> TRUE, fields |-> ItemLetterboxdA]}

ReceiveWebhookSnapshot(p) ==
    \E path \in {<<"movies">>}, payload \in SnapshotPayloads :
        /\ Route("POST", path) = "webhook"
        /\ Receive(p, path, payload, MaxSnapshotRequests)

ReceiveCleanupSnapshot(p) == Cleanup(p, MaxSnapshotRequests, {})

ReceiveGetStatsSnapshot(p) == Get(p, StatsPaths, MaxSnapshotRequests)

SnapshotNext ==
    \E p \in Procs :
        \/ ReceiveWebhookSnapshot(p)
        \/ ReceiveCleanupSnapshot(p)
        \/ ReceiveGetStatsSnapshot(p)
        \/ Step(p)
        \/ StatsMovies(p)
        \/ StatsWatches(p)
        \/ StatsPosters(p)
        \/ StatsRatings(p)

SnapshotSpec == Init /\ [][SnapshotNext]_vars

\* C29: every statistics response reports movies_with_posters <=
\* total_movies and a poster_coverage between 0 and 100, also when
\* deliveries or cleanups run while the four queries are made.
C29_StatsConsistentSnapshot ==
    \A p \in Procs :
        (req[p].pc = "done" /\ req[p].body.handler = "stats")
        => /\ req[p].body.stats.movies_with_posters
                  <= req[p].body.stats.total_movies
           /\ req[p].body.stats.poster_coverage >= 0
           /\ req[p].body.stats.poster_coverage <= 100

\* C30: when a delivery creates a new Movie and enrichment returned a
\* non-empty field map, the insert is not refused because of the merged
\* fields: an insert the store would accept without them is accepted with
\* them, so the delivery goes on to record its Watch (also when the
\* returned metadata id is already stored on another Movie).
C30_MergedFieldsNeverRefuseInsert ==
    [][\A p \in Procs :
          ( /\ req[p].pc = "insert_movie"
            /\ req'[p].pc # "insert_movie"
            /\ DOMAIN req[p].tmdbData # {}
            /\ MovieInsertError(movies,
                   NewMovieRow(nextMovieId, BaseMovieData(req[p].draft),
                               EmptyMap)) = "none" )
          => /\ req'[p].pc = "insert_watch"
             /\ req'[p].created
             /\ req'[p].movie.row \in movies']_vars


====
